---- MODULE Spec2Model ----
(***************************************************************************)
(* A model of the two node-graph editors of the focus tracker:             *)
(*   - LifeSystemMap (React Flow based; undo history, snap lines), and     *)
(*   - MindMapBoard (hand-written canvas with pan / drag / link gestures), *)
(* and of the App component that holds the focus workflow and persists it. *)
(* Every handler is one action.  A React event handler together with the   *)
(* render and the effects it triggers is one atomic step.                  *)
(***************************************************************************)
EXTENDS Integers, Sequences, FiniteSets, TLC

VARIABLES
  editor,        \* which component is open: "map" (LifeSystemMap) or "board" (MindMapBoard)
  ev,            \* the last event handled: [op, id]  (history variable, not program state)
  \* ---- LifeSystemMap ----
  mounted,       \* the mount effects have run
  nodes,         \* useNodesState: sequence of node records
  edges,         \* useEdgesState: sequence of edge records
  selectedNode,  \* {} (null) or {node record}: the object stored at selection time
  selectedEdge,  \* {} (null) or {edge record}
  isEditing,
  helperLines,   \* <<helperLineHorizontal, helperLineVertical>> as sets ({} = null)
  drag,          \* React Flow's drag in progress: {} or {[id, x, y]} (raw pointer position)
  history,       \* sequence of [nodes, edges] snapshots
  historyIndex,  \* 0-based cursor, -1 when the history is empty
  isUndoRedo,    \* the isUndoRedo ref
  now,           \* the last reading of Date.now()
  scenario,      \* bookkeeping of the capacity scenario: [phase, log, tries]
  \* ---- MindMapBoard ----
  layout,        \* the layout prop: function from session ids to [x, y, connections]
  mode, activeId, startMouse, dragOffset,   \* interactionRef.current
  pan,           \* pan state (panRef follows it)
  isPanning, draggingNodeId, tempLink,      \* render flags ({} = null)
  \* ---- getHelperLines ----
  calls,         \* log of the calls of getHelperLines made on its own: [dragging, nds, result]
  \* ---- the parent of LifeSystemMap ----
  saved,         \* the value last handed to onSave ({} = none yet)
  \* ---- App ----
  appPc,         \* "mounted": first render done, effects pending; "loadRan"; "flush"; "ready"
  state,         \* useState<AppState>: the value the last render saw
  loaded,        \* useState(false): the value the last render saw
  pending,       \* state updates queued by an effect: {} or {[state, loaded]}
  storage,       \* localStorage[STORAGE_KEY]: {} or {stored item}
  writes,        \* log of the values written with localStorage.setItem
  time           \* Date.now(), counted in half minutes

mapVars == <<mounted, nodes, edges, selectedNode, selectedEdge, isEditing,
             helperLines, drag, history, historyIndex, isUndoRedo, now>>
boardVars == <<layout, mode, activeId, startMouse, dragOffset, pan,
               isPanning, draggingNodeId, tempLink>>
appVars == <<appPc, state, loaded, pending, storage, writes, time>>
vars == <<editor, ev, mapVars, scenario, boardVars, calls, saved, appVars>>

----------------------------------------------------------------------------
(* Bounds of the model *)
MaxClock == 1      \* readings of Date.now() are 0..MaxClock
MaxPushes == 3     \* longest history explored by the editing specifications
MaxMouse == 1      \* pointer positions on the board are <<i, 0>>, i in 0..MaxMouse
MaxPan == 1        \* |pan.x| explored on the board
MaxDrift == 1      \* how far (in x) a board node may be from where nodes are added
MaxK == 2          \* checkpoints beyond the capacity in the capacity scenario
MaxExtraUndo == 2  \* undo attempts beyond capacity - 1 in the capacity scenario
MaxCalls == 3      \* calls of getHelperLines logged
MaxOff == 9        \* tentative tops tried are within MaxOff of the top of node A
MaxNodes == 3      \* largest document explored by the save / reopen specification
MaxTime == 4       \* readings of Date.now() in the App are 1..MaxTime half minutes
MaxSessions == 3   \* longest session history explored
MaxWrites == 6     \* writes to localStorage logged

(* Program constants *)
HISTORY_CAPACITY == 50
HISTORY_LAST == 49
INITIAL_CHAIN == 4           \* INITIAL_DATA.chainCount
DEMO_MINUTES == 45          \* durationMinutes of the first demo session
SNAP_THRESHOLD == 8

Min(a, b) == IF a < b THEN a ELSE b
Max(a, b) == IF a > b THEN a ELSE b
Abs(a) == IF a < 0 THEN -a ELSE a

The(s) == CHOOSE x \in s : TRUE
Ev(op, id) == [op |-> op, id |-> id]

----------------------------------------------------------------------------
(***************************  LifeSystemMap  *******************************)

NONE == "none"     \* an absent optional string field (undefined)

MkNode(id, x, y, label, nodeType, color, icon) ==
  [id |-> id, x |-> x, y |-> y, label |-> label, nodeType |-> nodeType,
   categoryColor |-> color, icon |-> icon]

MkEdge(id, source, target, sourceHandle, targetHandle, stroke) ==
  [id |-> id, source |-> source, target |-> target,
   sourceHandle |-> sourceHandle, targetHandle |-> targetHandle, stroke |-> stroke]

RootNode == MkNode("root", 400, 300, "root", "root", NONE, "brain")

\* initialData handed to the editor: a small saved document
InitialDocs ==
  { [nodes |-> <<RootNode, MkNode("a", 600, 300, "a", "category", NONE, NONE)>>,
     edges |-> <<MkEdge("e-root-a", "root", "a", NONE, NONE, "grey")>>] }

NodeIds(nds) == {nds[i].id : i \in 1..Len(nds)}
Snapshot(nds, eds) == [nodes |-> nds, edges |-> eds]

\* a history trimmed at the wrong end: .slice(0, 50)
KeepFirst(h) ==
  IF Len(h) > HISTORY_CAPACITY THEN SubSeq(h, 1, HISTORY_CAPACITY) ELSE h

\* [...newHistory, newState].slice(-50)
KeepLast(h) ==
  IF Len(h) > HISTORY_CAPACITY THEN SubSeq(h, Len(h) - HISTORY_CAPACITY + 1, Len(h)) ELSE h

\* a cursor that is not capped: prev + 1
NextIndexUncapped(prev) == prev + 1

\* Math.min(prev + 1, 49)
NextIndex(prev) == Min(prev + 1, HISTORY_LAST)

\* a saveToHistory that appends to the whole history: no prev.slice(0, historyIndex + 1)
SaveToHistoryAppending(nds, eds, h, hIdx, flag) ==
  IF flag
    THEN [history |-> h, historyIndex |-> hIdx, isUndoRedo |-> FALSE]
    ELSE [history |-> KeepLast(Append(h, Snapshot(nds, eds))),
          historyIndex |-> NextIndex(hIdx),
          isUndoRedo |-> FALSE]

\* a saveToHistory that returns early without clearing the flag
SaveToHistoryKeepingFlag(nds, eds, h, hIdx, flag) ==
  IF flag
    THEN [history |-> h, historyIndex |-> hIdx, isUndoRedo |-> TRUE]
    ELSE [history |-> KeepLast(Append(SubSeq(h, 1, Min(hIdx + 1, Len(h))), Snapshot(nds, eds))),
          historyIndex |-> NextIndex(hIdx),
          isUndoRedo |-> FALSE]

\* saveToHistory as run by a render whose state is (nds, eds, hIdx) over history h
SaveToHistory(nds, eds, h, hIdx, flag) ==
  IF flag
    THEN [history |-> h, historyIndex |-> hIdx, isUndoRedo |-> FALSE]
    ELSE [history |-> KeepLast(Append(SubSeq(h, 1, Min(hIdx + 1, Len(h))), Snapshot(nds, eds))),
          historyIndex |-> NextIndex(hIdx),
          isUndoRedo |-> FALSE]

\* a dependency list that also sees a node move: the lengths, or some position
PositionsChanged(nds, eds) ==
  \/ Len(nds) # Len(nodes) \/ Len(eds) # Len(edges)
  \/ \E i \in 1..Len(nds) : nds[i].x # nodes[i].x \/ nds[i].y # nodes[i].y

\* a dependency list [nodes, edges]: any change of the document
DocChanged(nds, eds) == nds # nodes \/ eds # edges

\* the dependency list [nodes.length, edges.length] of the history effect
LengthsChanged(nds, eds) == Len(nds) # Len(nodes) \/ Len(eds) # Len(edges)

\* A handler has set the document to (nds, eds), the cursor to hIdx and the ref to
\* flag; React renders and runs the history effect when its dependencies changed.
Render(nds, eds, hIdx, flag) ==
  LET r == IF LengthsChanged(nds, eds)
             THEN SaveToHistory(nds, eds, history, hIdx, flag)
             ELSE [history |-> history, historyIndex |-> hIdx, isUndoRedo |-> flag]
  IN /\ nodes' = nds
     /\ edges' = eds
     /\ history' = r.history
     /\ historyIndex' = r.historyIndex
     /\ isUndoRedo' = r.isUndoRedo


----------------------------------------------------------------------------
(* Bookkeeping of the capacity scenario (history variable `scenario`).     *)
(* phase "off": not tracked; "push": only checkpoints so far, log holds     *)
(* every snapshot pushed; "undo": only undo requests since then, tries      *)
(* counts them; "mixed": anything else.                                     *)
ScenarioOff == [phase |-> "off", log |-> <<>>, tries |-> 0]
ScenarioMixed == [phase |-> "mixed", log |-> <<>>, tries |-> 0]
ScenarioStart == [phase |-> "push", log |-> <<>>, tries |-> 0]

ScenarioAfterPush(snap) ==
  CASE scenario.phase = "off" -> scenario
    [] scenario.phase = "push" -> [scenario EXCEPT !.log = Append(@, snap)]
    [] OTHER -> ScenarioMixed

ScenarioAfterUndo ==
  CASE scenario.phase = "off" -> scenario
    [] scenario.phase \in {"push", "undo"} ->
         [scenario EXCEPT !.phase = "undo", !.tries = @ + 1]
    [] OTHER -> ScenarioMixed

ScenarioAfterRedo == IF scenario.phase = "off" THEN scenario ELSE ScenarioMixed

\* the render of Render, with the bookkeeping of the checkpoint it may take
RenderDoc(nds, eds) ==
  /\ Render(nds, eds, historyIndex, isUndoRedo)
  /\ scenario' = IF LengthsChanged(nds, eds) /\ ~isUndoRedo
                   THEN ScenarioAfterPush(Snapshot(nds, eds))
                   ELSE scenario

MapOpen == editor = "map" /\ mounted
MapFrame == UNCHANGED <<editor, mounted, boardVars, calls, saved, appVars>>
NoDocChange == UNCHANGED <<nodes, edges, history, historyIndex, isUndoRedo, scenario>>

\* useEffect(() => { saveToHistory(); }, [nodes.length, edges.length]) on mount
Mount ==
  /\ editor = "map" /\ ~mounted
  /\ LET r == SaveToHistory(nodes, edges, history, historyIndex, isUndoRedo)
     IN /\ history' = r.history
        /\ historyIndex' = r.historyIndex
        /\ isUndoRedo' = r.isUndoRedo
  /\ scenario' = ScenarioAfterPush(Snapshot(nodes, edges))
  /\ mounted' = TRUE
  /\ ev' = Ev("mount", NONE)
  /\ UNCHANGED <<editor, nodes, edges, selectedNode, selectedEdge, isEditing,
                 helperLines, drag, now, boardVars, calls, saved, appVars>>

onNodeClick(i) ==
  /\ MapOpen /\ drag = {} /\ i \in 1..Len(nodes)
  /\ selectedNode' = {nodes[i]}
  /\ selectedEdge' = {}
  /\ isEditing' = FALSE
  /\ ev' = Ev("nodeClick", nodes[i].id)
  /\ NoDocChange /\ MapFrame /\ UNCHANGED <<helperLines, drag, now>>

onEdgeClick(i) ==
  /\ MapOpen /\ drag = {} /\ i \in 1..Len(edges)
  /\ selectedEdge' = {edges[i]}
  /\ selectedNode' = {}
  /\ isEditing' = FALSE
  /\ ev' = Ev("edgeClick", edges[i].id)
  /\ NoDocChange /\ MapFrame /\ UNCHANGED <<helperLines, drag, now>>

onPaneClick ==
  /\ MapOpen /\ drag = {}
  /\ selectedNode' = {}
  /\ selectedEdge' = {}
  /\ ev' = Ev("paneClick", NONE)
  /\ NoDocChange /\ MapFrame /\ UNCHANGED <<isEditing, helperLines, drag, now>>

\* the "edit" button, rendered while a node is selected and not being edited
StartEditing ==
  /\ MapOpen /\ drag = {} /\ selectedNode # {} /\ ~isEditing
  /\ isEditing' = TRUE
  /\ ev' = Ev("startEditing", NONE)
  /\ NoDocChange /\ MapFrame
  /\ UNCHANGED <<selectedNode, selectedEdge, helperLines, drag, now>>

NodeId(t) == "node_" \o ToString(t)
AddEdgeId(source, target) == "e-" \o source \o "-" \o target

\* t: the reading of Date.now(), never before an earlier reading
handleAddNode(newNodeLabel, t) ==
  /\ MapOpen /\ t \in now..MaxClock
  /\ ev' = Ev("addNode", NONE)
  /\ IF newNodeLabel = ""
       THEN NoDocChange /\ UNCHANGED now
       ELSE LET id == NodeId(t)
                newNode == MkNode(id,
                             IF selectedNode # {} THEN The(selectedNode).x + 200 ELSE 400,
                             IF selectedNode # {} THEN The(selectedNode).y ELSE 300,
                             newNodeLabel, "leaf", NONE, NONE)
                newEdge == MkEdge(AddEdgeId(The(selectedNode).id, id),
                                  The(selectedNode).id, id, NONE, NONE, "grey")
            IN /\ RenderDoc(Append(nodes, newNode),
                            IF selectedNode # {} THEN Append(edges, newEdge) ELSE edges)
               /\ now' = t
  /\ MapFrame
  /\ UNCHANGED <<selectedNode, selectedEdge, isEditing, helperLines, drag>>

\* nds.filter((n) => n.id !== id)
RemoveNode(nds, id) == SelectSeq(nds, LAMBDA n : n.id # id)
\* a filter that forgets the incoming edges: e.source !== id
RemoveOutgoing(eds, id) == SelectSeq(eds, LAMBDA e : e.source # id)
\* eds.filter((e) => e.source !== id && e.target !== id)
RemoveIncident(eds, id) == SelectSeq(eds, LAMBDA e : e.source # id /\ e.target # id)
\* eds.filter((e) => e.id !== id)
RemoveEdge(eds, id) == SelectSeq(eds, LAMBDA e : e.id # id)

handleDeleteNode ==
  /\ MapOpen
  /\ IF selectedNode = {} \/ The(selectedNode).id = "root"
       THEN /\ ev' = Ev("deleteNode", NONE)
            /\ NoDocChange /\ UNCHANGED selectedNode
       ELSE /\ ev' = Ev("deleteNode", The(selectedNode).id)
            /\ RenderDoc(RemoveNode(nodes, The(selectedNode).id),
                         RemoveIncident(edges, The(selectedNode).id))
            /\ selectedNode' = {}
  /\ MapFrame
  /\ UNCHANGED <<selectedEdge, isEditing, helperLines, drag, now>>

\* that guard without its root check
KeyDeletesAnyNode == selectedNode # {} /\ ~isEditing

\* the guard of the Delete / Backspace branch that removes the selected node
KeyDeletesNode == selectedNode # {} /\ The(selectedNode).id # "root" /\ ~isEditing

\* handleKeyDown with e.key = 'Delete' or 'Backspace'
KeyDelete ==
  /\ MapOpen
  /\ IF KeyDeletesNode
       THEN /\ ev' = Ev("keyDelete", The(selectedNode).id)
            /\ RenderDoc(RemoveNode(nodes, The(selectedNode).id),
                         RemoveIncident(edges, The(selectedNode).id))
            /\ selectedNode' = {}
            /\ UNCHANGED selectedEdge
       ELSE IF selectedEdge # {}
         THEN /\ ev' = Ev("keyDelete", NONE)
              /\ RenderDoc(nodes, RemoveEdge(edges, The(selectedEdge).id))
              /\ selectedEdge' = {}
              /\ UNCHANGED selectedNode
         ELSE /\ ev' = Ev("keyDelete", NONE)
              /\ NoDocChange /\ UNCHANGED <<selectedNode, selectedEdge>>
  /\ MapFrame
  /\ UNCHANGED <<isEditing, helperLines, drag, now>>

handleDeleteEdge ==
  /\ MapOpen /\ drag = {}
  /\ ev' = Ev("deleteEdge", NONE)
  /\ IF selectedEdge = {}
       THEN NoDocChange /\ UNCHANGED selectedEdge
       ELSE /\ RenderDoc(nodes, RemoveEdge(edges, The(selectedEdge).id))
            /\ selectedEdge' = {}
  /\ MapFrame
  /\ UNCHANGED <<selectedNode, isEditing, helperLines, drag, now>>


\* n.id === id ? { ...n, data: { ...n.data, label } } : n
SetLabel(nds, id, label) ==
  [i \in 1..Len(nds) |-> IF nds[i].id = id THEN [nds[i] EXCEPT !.label = label] ELSE nds[i]]
\* n.id === id ? { ...n, data: { ...n.data, categoryColor: color } } : n
SetColor(nds, id, color) ==
  [i \in 1..Len(nds) |-> IF nds[i].id = id THEN [nds[i] EXCEPT !.categoryColor = color] ELSE nds[i]]
\* e.id === id ? { ...e, style: { ...e.style, stroke: color, strokeWidth: 2 } } : e
SetStroke(eds, id, color) ==
  [i \in 1..Len(eds) |-> IF eds[i].id = id THEN [eds[i] EXCEPT !.stroke = color] ELSE eds[i]]

\* the confirm button and the Enter key of the label input (rendered while editing)
handleEditNode(editLabel) ==
  /\ MapOpen /\ isEditing
  /\ ev' = Ev("editNode", NONE)
  /\ IF selectedNode = {} \/ editLabel = ""
       THEN NoDocChange /\ UNCHANGED isEditing
       ELSE /\ RenderDoc(SetLabel(nodes, The(selectedNode).id, editLabel), edges)
            /\ isEditing' = FALSE
  /\ MapFrame
  /\ UNCHANGED <<selectedNode, selectedEdge, helperLines, drag, now>>

handleChangeColor(color) ==
  /\ MapOpen /\ drag = {}
  /\ ev' = Ev("changeColor", NONE)
  /\ IF selectedNode = {}
       THEN NoDocChange
       ELSE RenderDoc(SetColor(nodes, The(selectedNode).id, color), edges)
  /\ MapFrame
  /\ UNCHANGED <<selectedNode, selectedEdge, isEditing, helperLines, drag, now>>

handleChangeEdgeColor(color) ==
  /\ MapOpen /\ drag = {}
  /\ ev' = Ev("changeEdgeColor", NONE)
  /\ IF selectedEdge = {}
       THEN NoDocChange /\ UNCHANGED selectedEdge
       ELSE /\ RenderDoc(nodes, SetStroke(edges, The(selectedEdge).id, color))
            /\ selectedEdge' = {[The(selectedEdge) EXCEPT !.stroke = color]}
  /\ MapFrame
  /\ UNCHANGED <<selectedNode, isEditing, helperLines, drag, now>>

\* n.id === id ? { ...n, data: { ...n.data, nodeType } } : n
SetNodeType(nds, id, nodeType) ==
  [i \in 1..Len(nds) |-> IF nds[i].id = id THEN [nds[i] EXCEPT !.nodeType = nodeType] ELSE nds[i]]

\* the values of nodeTypeOptions, offered by the type picker of the selected node
NodeTypes == {"root", "category", "leaf"}

\* an entry of the type picker (rendered for the selected node while not editing);
\* the selectedNode state keeps the node object of the click
handleChangeNodeType(nodeType) ==
  /\ MapOpen /\ drag = {} /\ ~isEditing
  /\ ev' = Ev("changeNodeType", NONE)
  /\ IF selectedNode = {}
       THEN NoDocChange
       ELSE RenderDoc(SetNodeType(nodes, The(selectedNode).id, nodeType), edges)
  /\ MapFrame
  /\ UNCHANGED <<selectedNode, selectedEdge, isEditing, helperLines, drag, now>>

\* handles of the custom node a connection can start from / end at
SourceHandles == {"right-source"}
TargetHandles == {"left-target"}

Falsy(h) == h = NONE
\* getEdgeId of @xyflow/react: `xy-edge__${source}${sourceHandle || ''}-${target}${targetHandle || ''}`
getEdgeId(c) ==
  "xy-edge__" \o c.source \o (IF Falsy(c.sourceHandle) THEN "" ELSE c.sourceHandle)
     \o "-" \o c.target \o (IF Falsy(c.targetHandle) THEN "" ELSE c.targetHandle)

\* connectionExists of @xyflow/react: same source, target and handles
connectionExists(c, eds) ==
  \E i \in 1..Len(eds) :
     /\ eds[i].source = c.source
     /\ eds[i].target = c.target
     /\ (eds[i].sourceHandle = c.sourceHandle
           \/ (Falsy(eds[i].sourceHandle) /\ Falsy(c.sourceHandle)))
     /\ (eds[i].targetHandle = c.targetHandle
           \/ (Falsy(eds[i].targetHandle) /\ Falsy(c.targetHandle)))

\* addEdge of @xyflow/react as onConnect calls it: the edges unchanged when the
\* connection exists, else the edges with the new edge appended
addEdge(c, eds) ==
  IF Falsy(c.source) \/ Falsy(c.target) \/ connectionExists(c, eds)
    THEN eds
    ELSE Append(eds, MkEdge(getEdgeId(c), c.source, c.target,
                            c.sourceHandle, c.targetHandle, "accent"))

Connection(source, sourceHandle, target, targetHandle) ==
  [source |-> source, sourceHandle |-> sourceHandle,
   target |-> target, targetHandle |-> targetHandle]

onConnect(c) ==
  /\ MapOpen /\ drag = {}
  /\ c.source \in NodeIds(nodes) /\ c.target \in NodeIds(nodes)
  /\ ev' = Ev("connect", NONE)
  /\ RenderDoc(nodes, addEdge(c, edges))
  /\ MapFrame
  /\ UNCHANGED <<selectedNode, selectedEdge, isEditing, helperLines, drag, now>>

\* positions of double-clicks, relative to the flow's bounding box
ClickPositions == {<<450, 320>>}

onPaneDoubleClick(cx, cy, t) ==
  /\ MapOpen /\ drag = {} /\ t \in now..MaxClock
  /\ LET newNode == MkNode(NodeId(t), cx - 50, cy - 20, "new", "leaf", NONE, "pin")
     IN /\ RenderDoc(Append(nodes, newNode), edges)
        /\ selectedNode' = {newNode}
        /\ ev' = Ev("paneDoubleClick", newNode.id)
  /\ now' = t
  /\ MapFrame
  /\ UNCHANGED <<selectedEdge, isEditing, helperLines, drag>>

handleUndo ==
  /\ MapOpen
  /\ ev' = Ev("undo", NONE)
  /\ scenario' = ScenarioAfterUndo
  /\ IF historyIndex <= 0
       THEN UNCHANGED <<nodes, edges, history, historyIndex, isUndoRedo,
                        selectedNode, selectedEdge>>
       ELSE LET prevState == history[historyIndex]      \* history[historyIndex - 1], 0-based
            IN /\ Render(prevState.nodes, prevState.edges, historyIndex - 1, TRUE)
               /\ selectedNode' = {}
               /\ selectedEdge' = {}
  /\ MapFrame
  /\ UNCHANGED <<isEditing, helperLines, drag, now>>

\* a redo that wraps around from the last entry to the first
handleRedoWrapping ==
  /\ MapOpen
  /\ ev' = Ev("redo", NONE)
  /\ scenario' = ScenarioAfterRedo
  /\ LET target == IF historyIndex >= Len(history) - 1 THEN 0 ELSE historyIndex + 1
         nextState == history[target + 1]
     IN /\ Render(nextState.nodes, nextState.edges, target, TRUE)
        /\ selectedNode' = {}
        /\ selectedEdge' = {}
  /\ MapFrame
  /\ UNCHANGED <<isEditing, helperLines, drag, now>>

handleRedo ==
  /\ MapOpen
  /\ ev' = Ev("redo", NONE)
  /\ scenario' = ScenarioAfterRedo
  /\ IF historyIndex >= Len(history) - 1
       THEN UNCHANGED <<nodes, edges, history, historyIndex, isUndoRedo,
                        selectedNode, selectedEdge>>
       ELSE LET nextState == history[historyIndex + 2]  \* history[historyIndex + 1], 0-based
            IN /\ Render(nextState.nodes, nextState.edges, historyIndex + 1, TRUE)
               /\ selectedNode' = {}
               /\ selectedEdge' = {}
  /\ MapFrame
  /\ UNCHANGED <<isEditing, helperLines, drag, now>>


----------------------------------------------------------------------------
(* Alignment helper lines *)

\* the fallback sizes by node type (no measured size)
getNodeDimensions(node) ==
  CASE node.nodeType = "root" -> [width |-> 180, height |-> 60]
    [] node.nodeType = "category" -> [width |-> 120, height |-> 48]
    [] OTHER -> [width |-> 100, height |-> 40]

\* accumulators kept at module level, surviving from one call to the next
HelperStartKept ==
  [horizontal |-> IF calls = <<>> THEN {} ELSE calls[Len(calls)].result.horizontal,
   vertical |-> {}, snapX |-> {},
   snapY |-> IF calls = <<>> THEN {} ELSE calls[Len(calls)].result.snapY,
   alignType |-> {},
   minHorizontalDistance |-> SNAP_THRESHOLD, minVerticalDistance |-> SNAP_THRESHOLD]

\* the locals of getHelperLines as each call initialises them
HelperStart ==
  [horizontal |-> {}, vertical |-> {}, snapX |-> {}, snapY |-> {}, alignType |-> {},
   minHorizontalDistance |-> SNAP_THRESHOLD, minVerticalDistance |-> SNAP_THRESHOLD]

\* the comparison below with <= in place of <
TryHorizontalInclusive(acc, dist, line, snap) ==
  IF dist <= acc.minHorizontalDistance
    THEN [acc EXCEPT !.minHorizontalDistance = dist, !.horizontal = {line}, !.snapY = {snap}]
    ELSE acc

\* if (dist < minHorizontalDistance) { minHorizontalDistance = dist; closestHorizontal = line; snapY = snap }
TryHorizontal(acc, dist, line, snap) ==
  IF dist < acc.minHorizontalDistance
    THEN [acc EXCEPT !.minHorizontalDistance = dist, !.horizontal = {line}, !.snapY = {snap}]
    ELSE acc

\* the comparison below with <= in place of <: the last of equally close candidates wins
TryVerticalInclusive(acc, dist, line, snap) ==
  IF dist <= acc.minVerticalDistance
    THEN [acc EXCEPT !.minVerticalDistance = dist, !.vertical = {line}, !.snapX = {snap}]
    ELSE acc

\* if (dist < minVerticalDistance) { minVerticalDistance = dist; closestVertical = line; snapX = snap }
TryVertical(acc, dist, line, snap) ==
  IF dist < acc.minVerticalDistance
    THEN [acc EXCEPT !.minVerticalDistance = dist, !.vertical = {line}, !.snapX = {snap}]
    ELSE acc

\* the body of the loop of getHelperLines for one node of the list
HelperLinesStep(acc, d, node) ==
  IF node.id = d.id THEN acc
  ELSE
    LET dd == getNodeDimensions(d)
        nd == getNodeDimensions(node)
        nodeCenterX == node.x + nd.width \div 2
        nodeCenterY == node.y + nd.height \div 2
        a1 == TryHorizontal(acc, Abs((d.y + dd.height \div 2) - nodeCenterY),
                            nodeCenterY, nodeCenterY - dd.height \div 2)
        a2 == TryHorizontal(a1, Abs(d.y - node.y), node.y, node.y)
        a3 == TryHorizontal(a2, Abs((d.y + dd.height) - (node.y + nd.height)),
                            node.y + nd.height, node.y + nd.height - dd.height)
        a4 == TryVertical(a3, Abs((d.x + dd.width \div 2) - nodeCenterX),
                          nodeCenterX, nodeCenterX - dd.width \div 2)
        a5 == TryVertical(a4, Abs(d.x - node.x), node.x, node.x)
        a6 == TryVertical(a5, Abs((d.x + dd.width) - (node.x + nd.width)),
                          node.x + nd.width, node.x + nd.width - dd.width)
    IN a6

RECURSIVE HelperLinesLoop(_, _, _, _)
HelperLinesLoop(acc, d, nds, i) ==
  IF i > Len(nds) THEN acc
  ELSE HelperLinesLoop(HelperLinesStep(acc, d, nds[i]), d, nds, i + 1)

getHelperLines(draggingNode, nds) ==
  LET r == HelperLinesLoop(HelperStart, draggingNode, nds, 1)
  IN [horizontal |-> r.horizontal, vertical |-> r.vertical,
      snapX |-> r.snapX, snapY |-> r.snapY, alignType |-> r.alignType]

\* getHelperLines(tempNode, nodes) evaluated on its own, tempNode being node i of
\* the document moved to the tentative position (x, y); nothing but the log changes
CallHelperLines(i, x, y) ==
  /\ editor = "map" /\ i \in 1..Len(nodes)
  /\ Len(calls) < MaxCalls
  /\ LET tempNode == [nodes[i] EXCEPT !.x = x, !.y = y]
     IN calls' = Append(calls, [dragging |-> tempNode, nds |-> nodes,
                                result |-> getHelperLines(tempNode, nodes)])
  /\ ev' = Ev("getHelperLines", nodes[i].id)
  /\ UNCHANGED <<editor, mapVars, scenario, boardVars, saved, appVars>>

\* the same call made once, on an empty log
ProbeHelperLines(i, x, y) ==
  /\ editor = "map" /\ i \in 1..Len(nodes)
  /\ calls = <<>>
  /\ LET tempNode == [nodes[i] EXCEPT !.x = x, !.y = y]
     IN calls' = <<[dragging |-> tempNode, nds |-> nodes,
                    result |-> getHelperLines(tempNode, nodes)]>>
  /\ ev' = Ev("getHelperLines", nodes[i].id)
  /\ UNCHANGED <<editor, mapVars, scenario, boardVars, saved, appVars>>

\* applyNodeChanges for one position change: the node(s) with that id get the position
ApplyPosition(nds, id, x, y) ==
  [i \in 1..Len(nds) |-> IF nds[i].id = id THEN [nds[i] EXCEPT !.x = x, !.y = y] ELSE nds[i]]

\* pointer positions a node is dragged to (its tentative top-left corner)
DragPositions == {<<404, 305>>, <<600, 100>>}

\* customOnNodesChange for a change {type: 'position', id, position, dragging: true}
DragMove(i, x, y) ==
  /\ MapOpen /\ i \in 1..Len(nodes)
  /\ IF drag = {} THEN TRUE ELSE The(drag).id = nodes[i].id
  /\ LET id == nodes[i].id
         draggingNode == nodes[CHOOSE k \in 1..Len(nodes) :
                                  /\ nodes[k].id = id
                                  /\ \A j \in 1..(k - 1) : nodes[j].id # id]
         tempNode == [draggingNode EXCEPT !.x = x, !.y = y]
         h == getHelperLines(tempNode, nodes)
     IN /\ helperLines' = <<h.horizontal, h.vertical>>
        /\ RenderDoc(ApplyPosition(nodes, id,
                                   IF h.snapX # {} THEN The(h.snapX) ELSE x,
                                   IF h.snapY # {} THEN The(h.snapY) ELSE y),
                     edges)
        /\ drag' = {[id |-> id, x |-> x, y |-> y]}
        /\ ev' = Ev("dragMove", id)
  /\ MapFrame
  /\ UNCHANGED <<selectedNode, selectedEdge, isEditing, now>>

\* customOnNodesChange for the change that ends the drag:
\* {type: 'position', id, position: <the pointer's last position>, dragging: false}
DragEnd ==
  /\ MapOpen /\ drag # {}
  /\ helperLines' = <<{}, {}>>
  /\ RenderDoc(ApplyPosition(nodes, The(drag).id, The(drag).x, The(drag).y), edges)
  /\ drag' = {}
  /\ ev' = Ev("dragEnd", The(drag).id)
  /\ MapFrame
  /\ UNCHANGED <<selectedNode, selectedEdge, isEditing, now>>


----------------------------------------------------------------------------
(***************************  MindMapBoard  ********************************)

NODE_WIDTH == 220
NODE_HEIGHT == 90
BOARD_WIDTH == 800         \* boardRef.current?.clientWidth || 800
BOARD_HEIGHT == 600        \* boardRef.current?.clientHeight || 600

\* the sessions prop: [id, status]
Sessions == { [id |-> "s1", status |-> "completed"],
              [id |-> "s2", status |-> "completed"],
              [id |-> "s3", status |-> "planned"] }
\* a backlog that forgets the filter on the status
unmappedSessionsOfAll == {s \in Sessions : s.id \notin DOMAIN layout}
completedSessions == {s \in Sessions : s.status # "planned"}
unmappedSessions == {s \in completedSessions : s.id \notin DOMAIN layout}
\* the nodes the board renders: layout keys that are completed sessions
RenderedNodes == {id \in DOMAIN layout : \E s \in completedSessions : s.id = id}

Buttons == {0, 1, 2}
MousePoints == {<<i, 0>> : i \in 0..MaxMouse}

NodeLayout(x, y, connections) == [x |-> x, y |-> y, connections |-> connections]
\* currentLayout[id] || { x: 100, y: 100, connections: [] }
getNodePos(id, currentLayout) ==
  IF id \in DOMAIN currentLayout THEN currentLayout[id] ELSE NodeLayout(100, 100, <<>>)

\* zoom is the constant 1
getCanvasCoordinates(p) == <<p[1] - pan[1], p[2] - pan[2]>>

\* { ...l, [id]: entry }
Put(l, id, entry) == [k \in DOMAIN l \cup {id} |-> IF k = id THEN entry ELSE l[k]]
SeqContains(s, x) == \E i \in 1..Len(s) : s[i] = x

BoardOpen == editor = "board"
BoardFrame == UNCHANGED <<editor, mapVars, scenario, calls, saved, appVars>>

handleMouseDownBoard(button, p) ==
  IF button # 0 /\ button # 1
    THEN UNCHANGED <<mode, activeId, startMouse, dragOffset, isPanning, draggingNodeId, tempLink>>
    ELSE /\ mode' = "PAN"
         /\ activeId' = {}
         /\ startMouse' = p
         /\ dragOffset' = <<0, 0>>
         /\ isPanning' = TRUE
         /\ UNCHANGED <<draggingNodeId, tempLink>>

handleMouseDownNode(button, id, p) ==
  IF button # 0
    THEN handleMouseDownBoard(button, p)         \* not stopped: bubbles to the board
    ELSE LET pos == getNodePos(id, layout)
             mouseCanvas == getCanvasCoordinates(p)
         IN /\ mode' = "DRAG_NODE"
            /\ activeId' = {id}
            /\ startMouse' = p
            /\ dragOffset' = <<mouseCanvas[1] - pos.x, mouseCanvas[2] - pos.y>>
            /\ draggingNodeId' = {id}
            /\ UNCHANGED <<isPanning, tempLink>>

handleMouseDownHandle(button, sourceId, p) ==
  IF button # 0
    THEN handleMouseDownNode(button, sourceId, p) \* not stopped: bubbles to the node
    ELSE LET mouseCanvas == getCanvasCoordinates(p)
         IN /\ tempLink' = {[sourceId |-> sourceId, endX |-> mouseCanvas[1], endY |-> mouseCanvas[2]]}
            /\ mode' = "LINK"
            /\ activeId' = {sourceId}
            /\ startMouse' = p
            /\ dragOffset' = <<0, 0>>
            /\ UNCHANGED <<isPanning, draggingNodeId>>

\* mousedown on the board background
MouseDownBoard(button, p) ==
  /\ BoardOpen
  /\ handleMouseDownBoard(button, p)
  /\ ev' = Ev("mouseDownBoard", NONE)
  /\ UNCHANGED <<layout, pan>> /\ BoardFrame

\* mousedown on the body of a rendered node
MouseDownNode(button, id, p) ==
  /\ BoardOpen /\ id \in RenderedNodes
  /\ handleMouseDownNode(button, id, p)
  /\ ev' = Ev("mouseDownNode", id)
  /\ UNCHANGED <<layout, pan>> /\ BoardFrame

\* mousedown on the connection handle of a rendered node
MouseDownHandle(button, id, p) ==
  /\ BoardOpen /\ id \in RenderedNodes
  /\ handleMouseDownHandle(button, id, p)
  /\ ev' = Ev("mouseDownHandle", id)
  /\ UNCHANGED <<layout, pan>> /\ BoardFrame

\* a mousemove listener that adds the pointer's displacement since pointer-down to
\* the node's current position (and so counts it again on every move)
handleGlobalMoveAccumulating(p) ==
  /\ BoardOpen
  /\ ev' = Ev("mouseMove", NONE)
  /\ CASE mode = "IDLE" -> UNCHANGED <<pan, startMouse, layout, tempLink>>
       [] mode = "PAN" ->
            /\ pan' = <<pan[1] + (p[1] - startMouse[1]), pan[2] + (p[2] - startMouse[2])>>
            /\ startMouse' = p
            /\ UNCHANGED <<layout, tempLink>>
       [] mode = "DRAG_NODE" /\ activeId # {} ->
            LET mouseCanvas == getCanvasCoordinates(p)
                currentPos == getNodePos(The(activeId), layout)
            IN /\ layout' = Put(layout, The(activeId),
                                [currentPos EXCEPT !.x = currentPos.x + (p[1] - startMouse[1]),
                                                   !.y = currentPos.y + (p[2] - startMouse[2])])
               /\ UNCHANGED <<pan, startMouse, tempLink>>
       [] mode = "LINK" /\ activeId # {} ->
            LET mouseCanvas == getCanvasCoordinates(p)
            IN /\ tempLink' = {[sourceId |-> The(activeId),
                                endX |-> mouseCanvas[1], endY |-> mouseCanvas[2]]}
               /\ UNCHANGED <<pan, startMouse, layout>>
       [] OTHER -> UNCHANGED <<pan, startMouse, layout, tempLink>>
  /\ UNCHANGED <<mode, activeId, dragOffset, isPanning, draggingNodeId>>
  /\ BoardFrame

\* a mousemove listener that pans without moving the anchor
handleGlobalMoveFixedAnchor(p) ==
  /\ BoardOpen
  /\ ev' = Ev("mouseMove", NONE)
  /\ CASE mode = "IDLE" -> UNCHANGED <<pan, startMouse, layout, tempLink>>
       [] mode = "PAN" ->
            /\ pan' = <<pan[1] + (p[1] - startMouse[1]), pan[2] + (p[2] - startMouse[2])>>
            /\ UNCHANGED <<startMouse, layout, tempLink>>
       [] mode = "DRAG_NODE" /\ activeId # {} ->
            LET mouseCanvas == getCanvasCoordinates(p)
                currentPos == getNodePos(The(activeId), layout)
            IN /\ layout' = Put(layout, The(activeId),
                                [currentPos EXCEPT !.x = mouseCanvas[1] - dragOffset[1],
                                                   !.y = mouseCanvas[2] - dragOffset[2]])
               /\ UNCHANGED <<pan, startMouse, tempLink>>
       [] mode = "LINK" /\ activeId # {} ->
            LET mouseCanvas == getCanvasCoordinates(p)
            IN /\ tempLink' = {[sourceId |-> The(activeId),
                                endX |-> mouseCanvas[1], endY |-> mouseCanvas[2]]}
               /\ UNCHANGED <<pan, startMouse, layout>>
       [] OTHER -> UNCHANGED <<pan, startMouse, layout, tempLink>>
  /\ UNCHANGED <<mode, activeId, dragOffset, isPanning, draggingNodeId>>
  /\ BoardFrame

\* the window's mousemove listener
handleGlobalMove(p) ==
  /\ BoardOpen
  /\ ev' = Ev("mouseMove", NONE)
  /\ CASE mode = "IDLE" -> UNCHANGED <<pan, startMouse, layout, tempLink>>
       [] mode = "PAN" ->
            /\ pan' = <<pan[1] + (p[1] - startMouse[1]), pan[2] + (p[2] - startMouse[2])>>
            /\ startMouse' = p
            /\ UNCHANGED <<layout, tempLink>>
       [] mode = "DRAG_NODE" /\ activeId # {} ->
            LET mouseCanvas == getCanvasCoordinates(p)
                currentPos == getNodePos(The(activeId), layout)
            IN /\ layout' = Put(layout, The(activeId),
                                [currentPos EXCEPT !.x = mouseCanvas[1] - dragOffset[1],
                                                   !.y = mouseCanvas[2] - dragOffset[2]])
               /\ UNCHANGED <<pan, startMouse, tempLink>>
       [] mode = "LINK" /\ activeId # {} ->
            LET mouseCanvas == getCanvasCoordinates(p)
            IN /\ tempLink' = {[sourceId |-> The(activeId),
                                endX |-> mouseCanvas[1], endY |-> mouseCanvas[2]]}
               /\ UNCHANGED <<pan, startMouse, layout>>
       [] OTHER -> UNCHANGED <<pan, startMouse, layout, tempLink>>
  /\ UNCHANGED <<mode, activeId, dragOffset, isPanning, draggingNodeId>>
  /\ BoardFrame

\* a mouseup listener that forgets the temporary link
handleGlobalUpKeepingLink ==
  IF mode # "IDLE"
    THEN /\ mode' = "IDLE"
         /\ activeId' = {}
         /\ isPanning' = FALSE
         /\ draggingNodeId' = {}
         /\ UNCHANGED tempLink
    ELSE UNCHANGED <<mode, activeId, isPanning, draggingNodeId, tempLink>>

\* the window's mouseup listener
handleGlobalUp ==
  IF mode # "IDLE"
    THEN /\ mode' = "IDLE"
         /\ activeId' = {}
         /\ isPanning' = FALSE
         /\ draggingNodeId' = {}
         /\ tempLink' = {}
    ELSE UNCHANGED <<mode, activeId, isPanning, draggingNodeId, tempLink>>

\* the layout handleMouseUpNode hands to onUpdateLayout (the layout itself when it does not call it)
handleMouseUpNode(targetId) ==
  IF mode = "LINK" /\ activeId # {}
    THEN LET sourceId == The(activeId)
             sourceNode == getNodePos(sourceId, layout)
         IN IF sourceId # targetId /\ ~SeqContains(sourceNode.connections, targetId)
              THEN Put(layout, sourceId,
                       [sourceNode EXCEPT !.connections = Append(@, targetId)])
              ELSE layout
    ELSE layout

\* mouseup outside every node: only the window listener runs
MouseUpBoard ==
  /\ BoardOpen
  /\ handleGlobalUp
  /\ ev' = Ev("mouseUpBoard", NONE)
  /\ UNCHANGED <<layout, pan, startMouse, dragOffset>> /\ BoardFrame

\* the two listeners in the opposite order: the window listener resets the
\* gesture before the node's onMouseUp looks at it
MouseUpNodeAfterReset(targetId) ==
  /\ BoardOpen /\ targetId \in RenderedNodes
  /\ layout' = layout
  /\ handleGlobalUp
  /\ ev' = Ev("mouseUpNode", targetId)
  /\ UNCHANGED <<pan, startMouse, dragOffset>> /\ BoardFrame

\* mouseup over a rendered node: the node's onMouseUp, then the window listener
MouseUpNode(targetId) ==
  /\ BoardOpen /\ targetId \in RenderedNodes
  /\ layout' = handleMouseUpNode(targetId)
  /\ handleGlobalUp
  /\ ev' = Ev("mouseUpNode", targetId)
  /\ UNCHANGED <<pan, startMouse, dragOffset>> /\ BoardFrame

\* the order of the sessions prop
SessionOrder == <<"s1", "s2">>
\* unmappedSessions[0].id (the backlog is not empty)
FirstUnmapped ==
  SessionOrder[CHOOSE i \in 1..Len(SessionOrder) :
                 /\ \E s \in unmappedSessions : s.id = SessionOrder[i]
                 /\ \A j \in 1..(i - 1) : \A s \in unmappedSessions : s.id # SessionOrder[j]]

\* points of the board that are double-clicked
DblClickPoints == {<<BOARD_WIDTH \div 2, BOARD_HEIGHT \div 2>>}

\* onDoubleClick of the board; onNode: the target lies inside an element with id node-...
handleDoubleClickBoard(p, onNode) ==
  /\ BoardOpen
  /\ onNode => RenderedNodes # {}
  /\ ev' = Ev("doubleClickBoard", NONE)
  /\ IF onNode \/ unmappedSessions = {}
       THEN layout' = layout
       ELSE LET mouseCanvas == getCanvasCoordinates(p)
            IN layout' = Put(layout, FirstUnmapped,
                             NodeLayout(mouseCanvas[1] - NODE_WIDTH \div 2,
                                        mouseCanvas[2] - NODE_HEIGHT \div 2, <<>>))
  /\ UNCHANGED <<mode, activeId, startMouse, dragOffset, pan, isPanning, draggingNodeId, tempLink>>
  /\ BoardFrame

\* a click on a backlog entry (its mouseup has already ended any gesture)
addNodeToBoard(sessionId) ==
  /\ BoardOpen /\ mode = "IDLE"
  /\ \E s \in unmappedSessions : s.id = sessionId
  /\ layout' = Put(layout, sessionId,
                   NodeLayout((-pan[1] + BOARD_WIDTH \div 2) - NODE_WIDTH \div 2,
                              (-pan[2] + BOARD_HEIGHT \div 2) - NODE_HEIGHT \div 2, <<>>))
  /\ ev' = Ev("addNode", sessionId)
  /\ UNCHANGED <<mode, activeId, startMouse, dragOffset, pan, isPanning, draggingNodeId, tempLink>>
  /\ BoardFrame

\* cid => cid !== sessionId over a connections array
WithoutConnection(connections, sessionId) == SelectSeq(connections, LAMBDA cid : cid # sessionId)

\* What the object that was the layout prop holds once removeNodeFromBoard has
\* run: newLayout = { ...layout } copies the keys only, the entries are shared, so
\* newLayout[key].connections = ... is an assignment to the entries of the prop;
\* the delete acts on the copy, the prop keeps the removed key.
PropAfterRemove(l, sessionId) ==
  [k \in DOMAIN l |->
     IF k = sessionId THEN l[k]
     ELSE [l[k] EXCEPT !.connections = WithoutConnection(@, sessionId)]]

\* a click on the x button of a rendered node
removeNodeFromBoard(sessionId) ==
  /\ BoardOpen /\ mode = "IDLE" /\ sessionId \in RenderedNodes
  /\ layout' = [k \in DOMAIN layout \ {sessionId} |->
                  [layout[k] EXCEPT !.connections = WithoutConnection(@, sessionId)]]
  /\ ev' = Ev("removeNode", sessionId)
  /\ UNCHANGED <<mode, activeId, startMouse, dragOffset, pan, isPanning, draggingNodeId, tempLink>>
  /\ BoardFrame


\* the x button activated from the keyboard (focus, then Enter or Space): its click
\* handler runs without any mouse event, so a gesture in progress is not ended
removeNodeByKey(sessionId) ==
  /\ BoardOpen /\ sessionId \in RenderedNodes
  /\ layout' = [k \in DOMAIN layout \ {sessionId} |->
                  [layout[k] EXCEPT !.connections = WithoutConnection(@, sessionId)]]
  /\ ev' = Ev("removeNodeByKey", sessionId)
  /\ UNCHANGED <<mode, activeId, startMouse, dragOffset, pan, isPanning, draggingNodeId, tempLink>>
  /\ BoardFrame

----------------------------------------------------------------------------
(* Saving and opening again.                                                 *)

\* DEFAULT_NODES / DEFAULT_EDGES, cut down to the root and its first category
DefaultDoc ==
  [nodes |-> <<RootNode, MkNode("health", 750, 80, "health", "category", "green", "muscle")>>,
   edges |-> <<MkEdge("e-root-health", "root", "health", NONE, NONE, "green")>>]

\* a fallback that would also replace an empty array: x.length ? x : DEFAULT
InitialWhenNonEmpty(initialData) ==
  [nodes |-> IF initialData = {} \/ The(initialData).nodes = <<>>
               THEN DefaultDoc.nodes ELSE The(initialData).nodes,
   edges |-> IF initialData = {} \/ The(initialData).edges = <<>>
               THEN DefaultDoc.edges ELSE The(initialData).edges]

\* initialData?.nodes || DEFAULT_NODES, initialData?.edges || DEFAULT_EDGES
\* (initialData: {} = undefined; an array, even an empty one, is truthy)
Initial(initialData) ==
  [nodes |-> IF initialData = {} THEN DefaultDoc.nodes ELSE The(initialData).nodes,
   edges |-> IF initialData = {} THEN DefaultDoc.edges ELSE The(initialData).edges]

\* the save button, and handleKeyDown with Ctrl+S: onSave({ nodes, edges })
handleSave ==
  /\ MapOpen
  /\ saved' = {[nodes |-> nodes, edges |-> edges]}
  /\ ev' = Ev("save", NONE)
  /\ UNCHANGED <<editor, mapVars, scenario, boardVars, calls, appVars>>

\* the reset button; confirmed is the answer given to confirm()
handleReset(confirmed) ==
  /\ MapOpen /\ drag = {}
  /\ ev' = Ev("reset", IF confirmed THEN "confirmed" ELSE "declined")
  /\ IF confirmed
       THEN /\ RenderDoc(DefaultDoc.nodes, DefaultDoc.edges)
            /\ selectedNode' = {}
       ELSE NoDocChange /\ UNCHANGED selectedNode
  /\ MapFrame
  /\ UNCHANGED <<selectedEdge, isEditing, helperLines, drag, now>>

\* the editor is closed and constructed again with the given initialData
Reopen(initialData) ==
  /\ MapOpen
  /\ nodes' = Initial(initialData).nodes
  /\ edges' = Initial(initialData).edges
  /\ mounted' = FALSE
  /\ selectedNode' = {} /\ selectedEdge' = {} /\ isEditing' = FALSE
  /\ helperLines' = <<{}, {}>> /\ drag' = {}
  /\ history' = <<>> /\ historyIndex' = -1 /\ isUndoRedo' = FALSE
  /\ ev' = Ev("reopen", IF initialData = {} THEN "default" ELSE "saved")
  /\ UNCHANGED <<editor, now, scenario, boardVars, calls, saved, appVars>>

----------------------------------------------------------------------------
(* The Escape key.  LifeSystemMap's handleKeyDown closes the pickers and     *)
(* ends label editing; MindMapBoard registers no key listener (its window    *)
(* listeners are mousemove and mouseup), so there the key changes nothing.   *)
KeyEscape ==
  /\ IF editor = "map" THEN mounted ELSE TRUE
  /\ ev' = Ev("escape", NONE)
  /\ isEditing' = IF editor = "map" THEN FALSE ELSE isEditing
  /\ UNCHANGED <<editor, mounted, nodes, edges, selectedNode, selectedEdge, helperLines,
                 drag, history, historyIndex, isUndoRedo, now, scenario, boardVars, calls, saved,
                 appVars>>

----------------------------------------------------------------------------
(***************************  Specifications  *****************************)

Labels == {"", "b"}        \* text typed into the label inputs
Colors == {"red"}          \* a colour of the palette

MapStart(doc) ==
  /\ mounted = FALSE
  /\ nodes = doc.nodes /\ edges = doc.edges
  /\ selectedNode = {} /\ selectedEdge = {} /\ isEditing = FALSE
  /\ helperLines = <<{}, {}>> /\ drag = {}
  /\ history = <<>> /\ historyIndex = -1 /\ isUndoRedo = FALSE
  /\ now = 0
  /\ calls = <<>>
  /\ saved = {}

----------------------------------------------------------------------------
(*******************************  App  *************************************)
(* The focus workflow (IDLE, AUX_COUNTDOWN, FOCUS), the session history and *)
(* the chain counter, loaded from and saved to localStorage.  Time is       *)
(* counted in half minutes: a minute is two units.                          *)

FocusSession(id, durationMinutes, status) ==
  [id |-> id, durationMinutes |-> durationMinutes, status |-> status]

\* DEMO_SESSIONS, cut down to the first one
DEMO_SESSIONS == <<FocusSession("demo-1", DEMO_MINUTES, "completed")>>

INITIAL_DATA ==
  [chainCount |-> INITIAL_CHAIN, history |-> DEMO_SESSIONS, rules |-> <<>>, todos |-> <<>>]

INITIAL_STATE ==
  [stage |-> "IDLE", currentTask |-> "", auxStartTime |-> {}, focusStartTime |-> {},
   data |-> INITIAL_DATA]

\* An item of localStorage: valid = JSON.parse succeeds; missing = the keys the
\* parsed object lacks (legacy data); value = the parsed object, the missing
\* keys filled with a placeholder that is never read.
StoredItem(valid, missing, value) == [valid |-> valid, missing |-> missing, value |-> value]

\* JSON.stringify(state): the state holds numbers, strings, null and arrays of
\* such, which JSON.parse gives back unchanged; no key is missing
Stringify(st) == StoredItem(TRUE, {}, st)

\* the body of the try block of the load effect: the value handed to setState
Normalize(item) ==
  LET parsed == item.value
      data == IF "data" \in item.missing THEN INITIAL_DATA ELSE parsed.data
      todos == IF "data" \notin item.missing /\ "todos" \in item.missing THEN <<>> ELSE data.todos
      rules == IF "data" \notin item.missing /\ "rules" \in item.missing THEN <<>> ELSE data.rules
  IN [parsed EXCEPT !.data = [data EXCEPT !.todos = todos, !.rules = rules]]

\* an auto-save effect without the test of loaded
SaveEffectUnguarded(st, ld) ==
  [storage |-> {Stringify(st)}, writes |-> Append(writes, st)]

\* the auto-save effect run by a render that saw (st, ld):
\* if (loaded) localStorage.setItem(STORAGE_KEY, JSON.stringify(state))
SaveEffect(st, ld) ==
  IF ld THEN [storage |-> {Stringify(st)}, writes |-> Append(writes, st)]
        ELSE [storage |-> storage, writes |-> writes]

AppOpen == editor = "app"
AppReady == AppOpen /\ appPc = "ready"
AppFrame == UNCHANGED <<editor, mapVars, scenario, boardVars, calls, saved>>

\* the load effect of the first render: it reads the item and queues
\* setState(parsed) (when there is an item that parses) and setLoaded(true)
LoadEffect ==
  /\ AppOpen /\ appPc = "mounted"
  /\ pending' = {[state |-> IF storage # {} /\ The(storage).valid
                              THEN Normalize(The(storage)) ELSE state,
                  loaded |-> TRUE]}
  /\ appPc' = "loadRan"
  /\ ev' = Ev("loadEffect", NONE)
  /\ UNCHANGED <<state, loaded, storage, writes, time>>
  /\ AppFrame

\* the auto-save effect of the first render: its closure holds the state and the
\* loaded flag of that render
FirstSaveEffect ==
  /\ AppOpen /\ appPc = "loadRan"
  /\ LET r == SaveEffect(state, loaded)
     IN storage' = r.storage /\ writes' = r.writes
  /\ appPc' = "flush"
  /\ ev' = Ev("saveEffect", NONE)
  /\ UNCHANGED <<state, loaded, pending, time>>
  /\ AppFrame

\* the render that takes the queued updates, and its auto-save effect ([state,
\* loaded] changed)
FlushRender ==
  /\ AppOpen /\ appPc = "flush" /\ pending # {}
  /\ state' = The(pending).state
  /\ loaded' = The(pending).loaded
  /\ pending' = {}
  /\ LET r == SaveEffect(The(pending).state, The(pending).loaded)
     IN storage' = r.storage /\ writes' = r.writes
  /\ appPc' = "ready"
  /\ ev' = Ev("render", NONE)
  /\ UNCHANGED time
  /\ AppFrame

\* setState(next) in a handler, the render and the auto-save effect of that render
Commit(next) ==
  /\ state' = next
  /\ LET r == SaveEffect(next, loaded)
     IN storage' = r.storage /\ writes' = r.writes
  /\ UNCHANGED <<appPc, loaded, pending>>

NoCommit == UNCHANGED <<appPc, state, loaded, pending, storage, writes>>

\* the clock advances
Tick ==
  /\ AppOpen /\ time < MaxTime
  /\ time' = time + 1
  /\ ev' = Ev("tick", NONE)
  /\ NoCommit /\ AppFrame

Tasks == {"t"}

\* the task form, rendered in stage IDLE; an empty task is not submitted
startAuxChain(task) ==
  /\ AppReady /\ state.stage = "IDLE" /\ task # ""
  /\ Commit([state EXCEPT !.stage = "AUX_COUNTDOWN", !.currentTask = task,
                          !.auxStartTime = {time}])
  /\ ev' = Ev("startAux", NONE)
  /\ UNCHANGED time /\ AppFrame

\* the start button, rendered in stage AUX_COUNTDOWN
startFocus ==
  /\ AppReady /\ state.stage = "AUX_COUNTDOWN"
  /\ Commit([state EXCEPT !.stage = "FOCUS", !.focusStartTime = {time}])
  /\ ev' = Ev("startFocus", NONE)
  /\ UNCHANGED time /\ AppFrame

\* stage, task and start times of an idle application
Idle(st) ==
  [st EXCEPT !.stage = "IDLE", !.currentTask = "", !.auxStartTime = {}, !.focusStartTime = {}]

\* a cancel that keeps the chain
cancelSessionKeepingChain(confirmed) ==
  /\ AppReady /\ state.stage \in {"AUX_COUNTDOWN", "FOCUS"}
  /\ IF confirmed
       THEN /\ Commit(Idle(state))
            /\ ev' = Ev("cancel", "confirmed")
       ELSE /\ NoCommit
            /\ ev' = Ev("cancel", "declined")
  /\ UNCHANGED time /\ AppFrame

\* the cancel buttons, rendered in the stages AUX_COUNTDOWN and FOCUS; confirmed
\* is the answer given to confirm()
cancelSession(confirmed) ==
  /\ AppReady /\ state.stage \in {"AUX_COUNTDOWN", "FOCUS"}
  /\ IF confirmed
       THEN /\ Commit([Idle(state) EXCEPT !.data.chainCount = 0])
            /\ ev' = Ev("cancel", "confirmed")
       ELSE /\ NoCommit
            /\ ev' = Ev("cancel", "declined")
  /\ UNCHANGED time /\ AppFrame

\* Math.floor((endTime - state.focusStartTime) / 60000)
DurationMinutes(startTime, endTime) == (endTime - startTime) \div 2

\* the finish button, rendered in stage FOCUS; confirmed is the answer given to
\* confirm() when the session is shorter than a minute
finishFocus(confirmed) ==
  /\ AppReady /\ state.stage = "FOCUS"
  /\ IF state.focusStartTime = {}
       THEN /\ NoCommit
            /\ ev' = Ev("finishFocus", "ignored")
       ELSE LET elapsed == DurationMinutes(The(state.focusStartTime), time)
                durationMinutes == IF elapsed < 1 THEN 1 ELSE elapsed
                newSession == FocusSession("uuid", durationMinutes, "completed")
            IN IF elapsed < 1 /\ ~confirmed
                 THEN /\ Commit(Idle(state))
                      /\ ev' = Ev("finishFocus", "discarded")
                 ELSE /\ Commit([Idle(state) EXCEPT
                                   !.data.chainCount = @ + 1,
                                   !.data.history = Append(@, newSession)])
                      /\ ev' = Ev("finishFocus", "recorded")
  /\ UNCHANGED time /\ AppFrame

\* the booking modal of the planning view (not rendered in stage FOCUS)
confirmBooking(duration) ==
  /\ AppReady /\ state.stage # "FOCUS"
  /\ Commit([state EXCEPT !.data.history = Append(@, FocusSession("uuid", duration, "planned"))])
  /\ ev' = Ev("confirmBooking", NONE)
  /\ UNCHANGED time /\ AppFrame

\* the App as constructed, first render done, with the given item in localStorage
AppStart(item) ==
  /\ appPc = "mounted"
  /\ state = INITIAL_STATE
  /\ loaded = FALSE
  /\ pending = {}
  /\ storage = item
  /\ writes = <<>>
  /\ time = 1

BoardStart ==
  /\ layout = <<>>
  /\ mode = "IDLE" /\ activeId = {} /\ startMouse = <<0, 0>> /\ dragOffset = <<0, 0>>
  /\ pan = <<0, 0>>
  /\ isPanning = FALSE /\ draggingNodeId = {} /\ tempLink = {}

\* where addNodeToBoard puts a node while pan = 0
AddX == (BOARD_WIDTH \div 2) - NODE_WIDTH \div 2

\* the part of the state space explored (a conjunct of every action)
Bounded ==
  /\ Len(history') <= MaxPushes
  /\ pan'[1] \in -MaxPan..MaxPan
  /\ \A id \in DOMAIN layout' : layout'[id].x \in (AddX - MaxDrift)..(AddX + MaxDrift)

(* Spec: both editors; the events that change the structure of the graph, the *)
(* selection and the gesture state.                                           *)
Init ==
  /\ editor \in {"map", "board"}
  /\ ev = Ev("init", NONE)
  /\ scenario = ScenarioOff
  /\ \E doc \in InitialDocs : MapStart(doc)
  /\ BoardStart
  /\ AppStart({})

Next ==
  \/ Mount /\ Bounded
  \/ \E i \in 1..Len(nodes) : onNodeClick(i) /\ Bounded
  \/ \E i \in 1..Len(edges) : onEdgeClick(i) /\ Bounded
  \/ onPaneClick /\ Bounded
  \/ StartEditing /\ Bounded
  \/ \E l \in Labels, t \in 0..MaxClock : handleAddNode(l, t) /\ Bounded
  \/ handleDeleteNode /\ Bounded
  \/ KeyDelete /\ Bounded
  \/ handleDeleteEdge /\ Bounded
  \/ \E s \in NodeIds(nodes), t \in NodeIds(nodes), sh \in SourceHandles, th \in TargetHandles :
        onConnect(Connection(s, sh, t, th)) /\ Bounded
  \/ \E p \in ClickPositions, t \in 0..MaxClock : onPaneDoubleClick(p[1], p[2], t) /\ Bounded
  \/ handleUndo /\ Bounded
  \/ handleRedo /\ Bounded
  \/ \E b \in Buttons, p \in MousePoints : MouseDownBoard(b, p) /\ Bounded
  \/ \E b \in Buttons, id \in RenderedNodes, p \in MousePoints : MouseDownNode(b, id, p) /\ Bounded
  \/ \E b \in Buttons, id \in RenderedNodes, p \in MousePoints : MouseDownHandle(b, id, p) /\ Bounded
  \/ \E p \in MousePoints : handleGlobalMove(p) /\ Bounded
  \/ MouseUpBoard /\ Bounded
  \/ \E id \in RenderedNodes : MouseUpNode(id) /\ Bounded
  \/ \E s \in Sessions : addNodeToBoard(s.id) /\ Bounded
  \/ \E id \in RenderedNodes : removeNodeFromBoard(id) /\ Bounded

Spec == Init /\ [][Next]_vars

(* SpecEdit: LifeSystemMap; relabel and recolor among selection, the        *)
(* deletion of an edge, undo and redo.                                       *)
InitEdit ==
  /\ editor = "map"
  /\ ev = Ev("init", NONE)
  /\ scenario = ScenarioOff
  /\ \E doc \in InitialDocs : MapStart(doc)
  /\ BoardStart
  /\ AppStart({})

NextEdit ==
  \/ Mount /\ Bounded
  \/ \E i \in 1..Len(nodes) : onNodeClick(i) /\ Bounded
  \/ \E i \in 1..Len(edges) : onEdgeClick(i) /\ Bounded
  \/ StartEditing /\ Bounded
  \/ \E l \in Labels : handleEditNode(l) /\ Bounded
  \/ \E c \in Colors : handleChangeColor(c) /\ Bounded
  \/ \E c \in Colors : handleChangeEdgeColor(c) /\ Bounded
  \/ handleDeleteEdge /\ Bounded
  \/ handleUndo /\ Bounded
  \/ handleRedo /\ Bounded

SpecEdit == InitEdit /\ [][NextEdit]_vars

(* SpecDrag: LifeSystemMap; node drags among selection, the deletion of an   *)
(* edge, undo and redo.                                                      *)
NextDrag ==
  \/ Mount /\ Bounded
  \/ \E i \in 1..Len(nodes) : onNodeClick(i) /\ Bounded
  \/ \E i \in 1..Len(edges) : onEdgeClick(i) /\ Bounded
  \/ \E i \in 1..Len(nodes), p \in DragPositions : DragMove(i, p[1], p[2]) /\ Bounded
  \/ DragEnd /\ Bounded
  \/ handleDeleteEdge /\ Bounded
  \/ handleUndo /\ Bounded
  \/ handleRedo /\ Bounded

SpecDrag == InitEdit /\ [][NextDrag]_vars

(* SpecGrow: LifeSystemMap; the structural actions (node add, node delete,   *)
(* edge connect, edge delete) among selection, node drags, undo and redo.    *)
BoundedGrow == Bounded /\ Len(nodes') <= MaxNodes /\ Len(edges') <= 2

NextGrow ==
  \/ Mount /\ BoundedGrow
  \/ \E i \in 1..Len(nodes) : onNodeClick(i) /\ BoundedGrow
  \/ \E i \in 1..Len(edges) : onEdgeClick(i) /\ BoundedGrow
  \/ handleAddNode("b", MaxClock) /\ BoundedGrow
  \/ handleDeleteNode /\ BoundedGrow
  \/ handleDeleteEdge /\ BoundedGrow
  \/ onConnect(Connection("a", "right-source", "root", "left-target")) /\ BoundedGrow
  \/ DragMove(2, 404, 305) /\ BoundedGrow
  \/ DragEnd /\ BoundedGrow
  \/ handleUndo /\ BoundedGrow
  \/ handleRedo /\ BoundedGrow

SpecGrow == InitEdit /\ [][NextGrow]_vars

(* SpecSel: LifeSystemMap; the selection among the actions that change the   *)
(* document: creation, connection, deletion, undo, redo and reset.           *)
NextSel ==
  \/ Mount /\ BoundedGrow
  \/ \E i \in 1..Len(nodes) : onNodeClick(i) /\ BoundedGrow
  \/ \E i \in 1..Len(edges) : onEdgeClick(i) /\ BoundedGrow
  \/ onPaneClick /\ BoundedGrow
  \/ \E p \in ClickPositions : onPaneDoubleClick(p[1], p[2], MaxClock) /\ BoundedGrow
  \/ onConnect(Connection("a", "right-source", "root", "left-target")) /\ BoundedGrow
  \/ handleDeleteNode /\ BoundedGrow
  \/ KeyDelete /\ BoundedGrow
  \/ handleDeleteEdge /\ BoundedGrow
  \/ handleUndo /\ BoundedGrow
  \/ handleRedo /\ BoundedGrow
  \/ \E confirmed \in BOOLEAN : handleReset(confirmed) /\ BoundedGrow

SpecSel == InitEdit /\ [][NextSel]_vars

(* SpecApp: the App from its first render: the load and auto-save effects,   *)
(* then the focus workflow and the booking of planned sessions.              *)
SavedIdle == [INITIAL_STATE EXCEPT !.data.chainCount = 2, !.data.history = <<>>]
SavedFocus == [SavedIdle EXCEPT !.stage = "FOCUS", !.currentTask = "t", !.focusStartTime = {1}]

\* what localStorage may hold at start: nothing, a string that does not parse, a
\* saved state (idle or in focus), legacy data without todos and rules, an object
\* without data
StoredItems ==
  { {},
    {StoredItem(FALSE, {}, INITIAL_STATE)},
    {Stringify(SavedIdle)},
    {Stringify(SavedFocus)},
    {StoredItem(TRUE, {"todos", "rules"}, SavedIdle)},
    {StoredItem(TRUE, {"data"}, SavedIdle)} }

BookingMinutes == {30}

InitApp ==
  /\ editor = "app"
  /\ ev = Ev("init", NONE)
  /\ scenario = ScenarioOff
  /\ \E doc \in InitialDocs : MapStart(doc)
  /\ BoardStart
  /\ \E item \in StoredItems : AppStart(item)

BoundedApp ==
  /\ Len(state'.data.history) <= MaxSessions
  /\ Len(writes') <= MaxWrites

NextApp ==
  \/ LoadEffect /\ BoundedApp
  \/ FirstSaveEffect /\ BoundedApp
  \/ FlushRender /\ BoundedApp
  \/ Tick /\ BoundedApp
  \/ \E task \in Tasks : startAuxChain(task) /\ BoundedApp
  \/ startFocus /\ BoundedApp
  \/ \E confirmed \in BOOLEAN : cancelSession(confirmed) /\ BoundedApp
  \/ \E confirmed \in BOOLEAN : finishFocus(confirmed) /\ BoundedApp
  \/ \E duration \in BookingMinutes : confirmBooking(duration) /\ BoundedApp

SpecApp == InitApp /\ [][NextApp]_vars

(* SpecHist: LifeSystemMap; the capacity scenario.  The document is a root   *)
(* and one node; connecting them and deleting the edge again takes the       *)
(* checkpoints.                                                              *)
HistDoc == [nodes |-> <<RootNode, MkNode("a", 600, 300, "a", "category", NONE, NONE)>>,
            edges |-> <<>>]

InitHist ==
  /\ editor = "map"
  /\ ev = Ev("init", NONE)
  /\ scenario = ScenarioStart
  /\ MapStart(HistDoc)
  /\ BoardStart
  /\ AppStart({})

BoundedHist ==
  /\ Len(scenario'.log) <= HISTORY_CAPACITY + MaxK
  /\ scenario'.tries <= HISTORY_LAST + MaxExtraUndo

NextHist ==
  \/ Mount /\ BoundedHist
  \/ onConnect(Connection("root", "right-source", "a", "left-target")) /\ BoundedHist
  \/ \E i \in 1..Len(edges) : onEdgeClick(i) /\ BoundedHist
  \/ handleDeleteEdge /\ BoundedHist
  \/ handleUndo /\ BoundedHist
  \/ handleRedo /\ BoundedHist

SpecHist == InitHist /\ [][NextHist]_vars

(* SpecKind: LifeSystemMap; the type picker among selection, the two ways  *)
(* of deleting a node, undo and redo.                                        *)
NextKind ==
  \/ Mount /\ Bounded
  \/ \E i \in 1..Len(nodes) : onNodeClick(i) /\ Bounded
  \/ onPaneClick /\ Bounded
  \/ \E k \in NodeTypes : handleChangeNodeType(k) /\ Bounded
  \/ handleDeleteNode /\ Bounded
  \/ KeyDelete /\ Bounded
  \/ handleUndo /\ Bounded
  \/ handleRedo /\ Bounded

SpecKind == InitEdit /\ [][NextKind]_vars

(* SpecEsc: both editors; the Escape key among label editing on the map and *)
(* the gestures of the board.                                                *)
\* the gestures explored here move no node
BoundedEsc == Bounded /\ \A id \in DOMAIN layout' : layout'[id].x = AddX

NextEsc ==
  \/ Mount /\ BoundedEsc
  \/ \E i \in 1..Len(nodes) : onNodeClick(i) /\ BoundedEsc
  \/ StartEditing /\ BoundedEsc
  \/ KeyEscape /\ BoundedEsc
  \/ \E b \in Buttons, p \in MousePoints : MouseDownBoard(b, p) /\ BoundedEsc
  \/ \E b \in Buttons, id \in RenderedNodes, p \in MousePoints : MouseDownNode(b, id, p) /\ BoundedEsc
  \/ \E b \in Buttons, id \in RenderedNodes, p \in MousePoints : MouseDownHandle(b, id, p) /\ BoundedEsc
  \/ \E p \in MousePoints : handleGlobalMove(p) /\ BoundedEsc
  \/ MouseUpBoard /\ BoundedEsc
  \/ \E id \in RenderedNodes : MouseUpNode(id) /\ BoundedEsc
  \/ \E s \in Sessions : addNodeToBoard(s.id) /\ BoundedEsc

SpecEsc == Init /\ [][NextEsc]_vars

(* SpecBoard: MindMapBoard alone; node drags and link draws, with nodes     *)
(* added and removed, a removal possibly falling inside a gesture.           *)
InitBoard ==
  /\ editor = "board"
  /\ ev = Ev("init", NONE)
  /\ scenario = ScenarioOff
  /\ \E doc \in InitialDocs : MapStart(doc)
  /\ BoardStart
  /\ AppStart({})

NextBoard ==
  \/ \E b \in Buttons, id \in RenderedNodes, p \in MousePoints : MouseDownNode(b, id, p) /\ Bounded
  \/ \E b \in Buttons, id \in RenderedNodes, p \in MousePoints : MouseDownHandle(b, id, p) /\ Bounded
  \/ \E p \in MousePoints : handleGlobalMove(p) /\ Bounded
  \/ MouseUpBoard /\ Bounded
  \/ \E id \in RenderedNodes : MouseUpNode(id) /\ Bounded
  \/ \E s \in Sessions : addNodeToBoard(s.id) /\ Bounded
  \/ \E id \in RenderedNodes : removeNodeFromBoard(id) /\ Bounded
  \/ \E id \in RenderedNodes : removeNodeByKey(id) /\ Bounded

SpecBoard == InitBoard /\ [][NextBoard]_vars

(* SpecSave: LifeSystemMap; documents made by adding, retyping and deleting  *)
(* nodes are saved, and the editor is opened again on what was saved. *)
\* one checkpoint after the mount per opening of the editor, documents of MaxNodes nodes
BoundedSave == Bounded /\ Len(history') <= 2 /\ Len(nodes') <= MaxNodes

NextSave ==
  \/ Mount /\ BoundedSave
  \/ \E i \in 1..Len(nodes) : onNodeClick(i) /\ BoundedSave
  \/ handleAddNode("b", now) /\ BoundedSave
  \/ handleChangeNodeType("category") /\ BoundedSave
  \/ handleDeleteNode /\ BoundedSave
  \/ handleSave /\ BoundedSave
  \/ \E d \in {{}, saved} : Reopen(d) /\ BoundedSave

SpecSave == InitEdit /\ [][NextSave]_vars

(* SpecDbl: both editors; double-clicks among the adding and removing of     *)
(* board nodes, pans of the board, and selection on the map.                 *)
NextDbl ==
  \/ Mount /\ Bounded
  \/ \E i \in 1..Len(nodes) : onNodeClick(i) /\ Bounded
  \/ \E p \in ClickPositions, t \in 0..MaxClock : onPaneDoubleClick(p[1], p[2], t) /\ Bounded
  \/ handleUndo /\ Bounded
  \/ \E p \in DblClickPoints, onNode \in BOOLEAN : handleDoubleClickBoard(p, onNode) /\ Bounded
  \/ \E b \in Buttons, p \in MousePoints : MouseDownBoard(b, p) /\ Bounded
  \/ \E p \in MousePoints : handleGlobalMove(p) /\ Bounded
  \/ MouseUpBoard /\ Bounded
  \/ \E s \in Sessions : addNodeToBoard(s.id) /\ Bounded
  \/ \E id \in RenderedNodes : removeNodeFromBoard(id) /\ Bounded

SpecDbl == Init /\ [][NextDbl]_vars

(* SpecSnap: getHelperLines as a function.  Node A stands at (100, 100),     *)
(* node B of the same size starts SNAP_THRESHOLD below it; a third node of   *)
(* another size may stand further right.  B is moved to tentative positions. *)
NodeA == MkNode("A", 100, 100, "A", "leaf", NONE, NONE)
NodeB == MkNode("B", 100, 100 + SNAP_THRESHOLD, "B", "leaf", NONE, NONE)
NodeC == MkNode("C", 300, 104, "C", "category", NONE, NONE)
SnapDocs == {[nodes |-> <<NodeA, NodeB>>, edges |-> <<>>],
             [nodes |-> <<NodeA, NodeB, NodeC>>, edges |-> <<>>]}
SnapTops == (NodeA.y - MaxOff)..(NodeA.y + MaxOff)

InitSnap ==
  /\ editor = "map"
  /\ ev = Ev("init", NONE)
  /\ scenario = ScenarioOff
  /\ \E doc \in SnapDocs : MapStart(doc)
  /\ BoardStart
  /\ AppStart({})

NextSnap == \E y \in SnapTops : CallHelperLines(2, NodeB.x, y)

SpecSnap == InitSnap /\ [][NextSnap]_vars

(* SpecProbe: getHelperLines as a function of both coordinates.  Any node of *)
(* the list is moved to tentative positions around node A.                   *)
SnapLefts == (NodeA.x - MaxOff)..(NodeA.x + MaxOff)

NextProbe ==
  \E i \in 1..Len(nodes), x \in SnapLefts, y \in SnapTops : ProbeHelperLines(i, x, y)

SpecProbe == InitSnap /\ [][NextProbe]_vars

----------------------------------------------------------------------------
(*******************************  Claims  *********************************)

IsMap == editor = "map"
IsBoard == editor = "board"
\* the checkpoint the cursor points at
CurrentEntry == history[historyIndex + 1]

\* C1: after a node X has been deleted (toolbar delete or Delete/Backspace in
\* LifeSystemMap, the x button in MindMapBoard) no edge of the resulting document
\* has X as source or target, and no connections list holds X.
C1_NoDanglingEdges ==
  /\ (IsMap /\ ev.op \in {"deleteNode", "keyDelete"} /\ ev.id # NONE)
        => /\ ev.id \notin NodeIds(nodes)
           /\ \A i \in 1..Len(edges) : edges[i].source # ev.id /\ edges[i].target # ev.id
  /\ (IsBoard /\ ev.op = "removeNode")
        => /\ ev.id \notin DOMAIN layout
           /\ \A k \in DOMAIN layout : ~SeqContains(layout[k].connections, ev.id)

\* C1 witness: node a, which the root was connected to, has just been deleted
C1_Witness ==
  /\ IsMap /\ ev.op \in {"deleteNode", "keyDelete"} /\ ev.id = "a"
  /\ Len(history) >= 2
  /\ \E i \in 1..Len(history[1].edges) : history[1].edges[i].target = "a"

\* C2 (as claimed): in MindMapBoard at most one of isPanning, draggingNodeId,
\* tempLink is set in every reachable state, and it agrees with the mode.
C2_SingleGesture ==
  IsBoard =>
    /\ Cardinality({g \in {"PAN", "DRAG_NODE", "LINK"} :
                      \/ g = "PAN" /\ isPanning
                      \/ g = "DRAG_NODE" /\ draggingNodeId # {}
                      \/ g = "LINK" /\ tempLink # {}}) <= 1
    /\ isPanning <=> mode = "PAN"
    /\ draggingNodeId # {} <=> mode = "DRAG_NODE"
    /\ tempLink # {} <=> mode = "LINK"

\* C3 (as claimed): a pointer-down while the mode is not IDLE changes neither
\* the interaction state nor the layout.
C3_SecondPointerDownIgnored ==
  [][(IsBoard /\ mode # "IDLE"
        /\ ev'.op \in {"mouseDownBoard", "mouseDownNode", "mouseDownHandle"})
     => UNCHANGED <<mode, activeId, startMouse, dragOffset,
                    isPanning, draggingNodeId, tempLink, layout, pan>>]_vars

\* the last n entries of a sequence
LastOf(s, n) == SubSeq(s, Len(s) - n + 1, Len(s))

\* C4: starting from an empty history, once more than 50 checkpoints have been
\* taken the history holds exactly the 50 newest, the cursor is on the newest,
\* and of the undo requests that follow exactly the first 49 succeed: after t of
\* them the cursor is at max(49 - t, 0) and the document is the entry there.
C4_Capacity ==
  (scenario.phase \in {"push", "undo"} /\ Len(scenario.log) > HISTORY_CAPACITY)
    => /\ Len(history) = HISTORY_CAPACITY
       /\ history = LastOf(scenario.log, HISTORY_CAPACITY)
       /\ historyIndex = Max(HISTORY_CAPACITY - 1 - scenario.tries, 0)
       /\ nodes = CurrentEntry.nodes /\ edges = CurrentEntry.edges

\* C4 witness: more than 50 checkpoints, then more than 49 undo requests
C4_Witness ==
  /\ scenario.phase = "undo" /\ Len(scenario.log) > HISTORY_CAPACITY
  /\ scenario.tries > HISTORY_CAPACITY - 1
  /\ ev.op = "undo"

\* C5 (as claimed): 0 <= historyIndex < history.length in every reachable state
\* of the LifeSystemMap editor.
C5_CursorAlwaysInRange ==
  IsMap => (0 <= historyIndex /\ historyIndex < Len(history))

\* C5 (amended): once the mount checkpoint has been taken, no sequence of
\* checkpoints, undos and redos moves the cursor outside [0, history.length - 1];
\* before it the history is empty and the cursor is -1.
C5_CursorInRange ==
  IsMap => IF mounted
             THEN 0 <= historyIndex /\ historyIndex < Len(history)
             ELSE history = <<>> /\ historyIndex = -1

\* C5 witness: a redo has brought the cursor back to the top of a full history
C5_Witness ==
  /\ IsMap /\ mounted /\ ev.op = "redo"
  /\ Len(history) = HISTORY_CAPACITY /\ historyIndex = HISTORY_CAPACITY - 1

C8_NoDuplicateEdges ==
  /\ IsMap => \A i, j \in 1..Len(edges) :
                 (i # j) => ~(edges[i].source = edges[j].source /\ edges[i].target = edges[j].target)
  /\ IsBoard => \A k \in DOMAIN layout : \A i, j \in 1..Len(layout[k].connections) :
                   (i # j) => layout[k].connections[i] # layout[k].connections[j]

\* C9 (as claimed): no reachable document holds a self-loop.
C9_NoSelfLoops ==
  /\ IsMap => \A i \in 1..Len(edges) : edges[i].source # edges[i].target
  /\ IsBoard => \A k \in DOMAIN layout : ~SeqContains(layout[k].connections, k)

KindOf(id) == {nodes[i].nodeType : i \in {j \in 1..Len(nodes) : nodes[j].id = id}}

\* C11: a delete request (panel button or Delete / Backspace key) on a selected
\* node whose kind in the document is root leaves nodes and edges unchanged.
C11_RootKindNeverDeleted ==
  [][(IsMap /\ ev'.op \in {"deleteNode", "keyDelete"} /\ selectedNode # {} /\ ~isEditing
        /\ "root" \in KindOf(The(selectedNode).id))
      => UNCHANGED <<nodes, edges>>]_vars

\* C12: the node ids of the document are pairwise distinct, whatever clock
\* readings the add-node actions (toolbar add, double-click add) observed.
C12_NodeIdsDistinct ==
  IsMap => \A i, j \in 1..Len(nodes) : i # j => nodes[i].id # nodes[j].id

\* the calls made on the two-node list A, B (B being the moved node)
PairCalls == {i \in 1..Len(calls) : calls[i].nds = <<NodeA, NodeB>>}

\* C13 (as claimed): whenever B's tentative top is within SNAP_THRESHOLD of A's
\* top, the boundary included, getHelperLines reports the horizontal guide at
\* A's top (Y = 100) and the snapped y 100.
C13_TopGuideWithinThreshold ==
  \A i \in PairCalls :
    Abs(calls[i].dragging.y - NodeA.y) <= SNAP_THRESHOLD
      => calls[i].result.horizontal = {NodeA.y} /\ calls[i].result.snapY = {NodeA.y}

\* C13 (amended): when B's tentative top is strictly less than SNAP_THRESHOLD from
\* A's top, getHelperLines reports the snapped y 100 and the horizontal guide at
\* the common centre line (A's top plus half the height); at a distance of
\* SNAP_THRESHOLD or more it reports no horizontal guide and no snapped y.
C13_CentreGuideBelowThreshold ==
  \A i \in PairCalls :
    IF Abs(calls[i].dragging.y - NodeA.y) < SNAP_THRESHOLD
      THEN /\ calls[i].result.horizontal = {NodeA.y + getNodeDimensions(NodeA).height \div 2}
           /\ calls[i].result.snapY = {NodeA.y}
      ELSE /\ calls[i].result.horizontal = {}
           /\ calls[i].result.snapY = {}

\* B tried one unit inside the threshold and at its start position, on the threshold
C13_Witness ==
  /\ \E i \in PairCalls : calls[i].dragging.y = NodeA.y + SNAP_THRESHOLD - 1
                           /\ calls[i].result.snapY = {NodeA.y}
  /\ \E i \in PairCalls : calls[i].dragging = NodeB /\ calls[i].result.snapY = {}

\* C14: when the pointer is released while the dragged node is snapped (the last
\* move found an alignment within the threshold, a helper line is shown), the
\* release leaves the node at the snapped position the move put it at.
C14_ReleaseCommitsSnap ==
  [][(IsMap /\ ev'.op = "dragEnd" /\ helperLines # <<{}, {}>>) => nodes' = nodes]_vars

\* C15: in any interaction state, pressing Escape leaves the interaction state
\* Idle with no temporary link, and the document unchanged.
C15_EscapeForcesIdle ==
  [][(ev'.op = "escape")
      => /\ IsBoard => (mode' = "IDLE" /\ tempLink' = {} /\ draggingNodeId' = {}
                        /\ ~isPanning' /\ layout' = layout)
         /\ IsMap => (~isEditing' /\ nodes' = nodes /\ edges' = edges)]_vars

\* C16: a drag write-through (mouse move in DRAG_NODE) or a connect (release of
\* a link over a node) whose node id is absent from the layout leaves the layout
\* unchanged; in particular it creates no entry for that id.
C16_UnknownIdNoOp ==
  [][(IsBoard /\ ev'.op \in {"mouseMove", "mouseUpNode"}
        /\ activeId # {} /\ The(activeId) \notin DOMAIN layout)
      => layout' = layout]_vars

\* C17: undo with the cursor at index 0 and redo with the cursor at the last
\* history entry change neither nodes, edges, the history nor the cursor (the
\* cursor stays where it is, it does not wrap around).
C17_BoundaryNoOps ==
  [][(IsMap /\ mounted /\ ((ev'.op = "undo" /\ historyIndex = 0)
                             \/ (ev'.op = "redo" /\ historyIndex = Len(history) - 1)))
      => UNCHANGED <<nodes, edges, history, historyIndex>>]_vars

\* a redo requested with the cursor on the last of several entries: the edge
\* selection is still there, which a redo that restores an entry would have cleared
C17_Witness ==
  /\ IsMap /\ ev.op = "redo"
  /\ Len(history) >= 2 /\ historyIndex = Len(history) - 1
  /\ selectedEdge # {}
  /\ CurrentEntry = Snapshot(nodes, edges)

\* C18: saving hands the current nodes and edges to onSave without changing them,
\* and opening the editor again with the saved value as initialData starts it on
\* exactly those nodes and edges (ids, positions, labels, kinds, colors, icons,
\* connections).
C18_SaveReopenRoundTrip ==
  [][/\ (IsMap /\ ev'.op = "save")
          => /\ saved' = {[nodes |-> nodes, edges |-> edges]}
             /\ nodes' = nodes /\ edges' = edges
     /\ (IsMap /\ ev' = Ev("reopen", "saved"))
          => /\ nodes' = The(saved).nodes
             /\ edges' = The(saved).edges]_vars

\* the editor opened again on a saved document that is not the one it started
\* with: added nodes, one of them retyped, and no edge left
C18_Witness ==
  /\ IsMap /\ ev = Ev("reopen", "saved")
  /\ saved = {[nodes |-> nodes, edges |-> edges]}
  /\ Len(nodes) = MaxNodes /\ edges = <<>>
  /\ \E i \in 1..Len(nodes) : nodes[i].label = "b" /\ nodes[i].nodeType = "category"

ConnectionsOf(l, id) == IF id \in DOMAIN l THEN l[id].connections ELSE <<>>

\* C20: when a link drawn from node S is released over a node T other than S,
\* the layout afterwards holds the connection S -> T (added at the end of S's
\* connections if it was absent, the layout untouched if it was there) and
\* nothing else of the layout changed; when it is released over the background
\* or over S itself the layout is unchanged.  In each case the interaction state
\* is then Idle and no temporary link is left.
C20_LinkDrop ==
  [][(IsBoard /\ mode = "LINK" /\ activeId # {} /\ ev'.op \in {"mouseUpNode", "mouseUpBoard"})
      => LET S == The(activeId)
             T == ev'.id
         IN /\ mode' = "IDLE" /\ activeId' = {} /\ tempLink' = {}
            /\ IF ev'.op = "mouseUpNode" /\ T # S
                 THEN /\ S \in DOMAIN layout'
                      /\ layout'[S].connections =
                           IF SeqContains(ConnectionsOf(layout, S), T)
                             THEN ConnectionsOf(layout, S)
                             ELSE Append(ConnectionsOf(layout, S), T)
                      /\ SeqContains(ConnectionsOf(layout, S), T) => layout' = layout
                      /\ \A k \in DOMAIN layout' \ {S} : k \in DOMAIN layout /\ layout'[k] = layout[k]
                      /\ DOMAIN layout \subseteq DOMAIN layout'
                 ELSE layout' = layout]_vars

\* a link released over the other node: both nodes are on the board, the first
\* connection between them is recorded and the gesture is over
C20_Witness ==
  /\ IsBoard /\ ev.op = "mouseUpNode"
  /\ mode = "IDLE" /\ activeId = {} /\ tempLink = {}
  /\ \E S \in DOMAIN layout :
        /\ S # ev.id /\ ev.id \in DOMAIN layout
        /\ layout[S].connections = <<ev.id>>
        /\ layout[ev.id].connections = <<>>

\* C21: after every pointer-up (over the background, the source node or another
\* node, whatever gesture was active) the board is Idle with isPanning false,
\* draggingNodeId null and tempLink null; a pointer-up received while the board
\* is already Idle changes nothing of the board.
C21_PointerUpEndsGesture ==
  [][(IsBoard /\ ev'.op \in {"mouseUpBoard", "mouseUpNode"})
      => /\ mode' = "IDLE" /\ activeId' = {}
         /\ ~isPanning' /\ draggingNodeId' = {} /\ tempLink' = {}
         /\ mode = "IDLE" => UNCHANGED boardVars]_vars

\* a release over the background after the viewport was panned
C21_Witness ==
  /\ IsBoard /\ ev.op = "mouseUpBoard"
  /\ pan # <<0, 0>>
  /\ mode = "IDLE" /\ ~isPanning /\ draggingNodeId = {} /\ tempLink = {}

\* C22: while node N (a node of the layout) is dragged, a pointer-move puts N at
\* canvasPos(pointer) - grabOffset for the pointer position of the move, the
\* grab offset being the one fixed at pointer-down, and changes nothing else:
\* N's connections, the entry of every other node, the set of entries, the pan
\* and the gesture state stay as they were.
C22_DragMovesOnlyPosition ==
  [][(IsBoard /\ ev'.op = "mouseMove" /\ mode = "DRAG_NODE" /\ activeId # {}
        /\ (activeId \subseteq DOMAIN layout))
      => LET N == The(activeId)
         IN /\ DOMAIN layout' = DOMAIN layout
            /\ \A p \in MousePoints :
                  handleGlobalMove(p)
                    => /\ layout'[N].x = getCanvasCoordinates(p)[1] - dragOffset[1]
                       /\ layout'[N].y = getCanvasCoordinates(p)[2] - dragOffset[2]
            /\ layout'[N].connections = layout[N].connections
            /\ \A k \in DOMAIN layout \ {N} : layout'[k] = layout[k]
            /\ UNCHANGED <<pan, dragOffset, mode, activeId, startMouse>>]_vars

\* a connected node dragged away from where it was added, on a panned viewport,
\* next to another node
C22_Witness ==
  /\ IsBoard /\ ev.op = "mouseMove" /\ mode = "DRAG_NODE"
  /\ pan # <<0, 0>>
  /\ \E N \in activeId :
        /\ N \in DOMAIN layout
        /\ layout[N].connections # <<>>
        /\ layout[N].x # AddX - pan[1]
        /\ DOMAIN layout # {N}

\* The alignment candidates of one axis for dragged node d against the list nds:
\* centre, top / left, bottom / right of every other node, with the distance to
\* the matching line of d, the guide line, the snapped coordinate and the place
\* in the order in which the list is walked (node by node, centre first).
HorizontalCandidates(d, nds) ==
  LET dh == getNodeDimensions(d).height
  IN UNION {LET n == nds[i]
                nh == getNodeDimensions(n).height
            IN {[order |-> 3 * i + 1, dist |-> Abs((d.y + dh \div 2) - (n.y + nh \div 2)),
                 line |-> n.y + nh \div 2, snap |-> n.y + nh \div 2 - dh \div 2],
                [order |-> 3 * i + 2, dist |-> Abs(d.y - n.y), line |-> n.y, snap |-> n.y],
                [order |-> 3 * i + 3, dist |-> Abs((d.y + dh) - (n.y + nh)),
                 line |-> n.y + nh, snap |-> n.y + nh - dh]}
            : i \in {j \in 1..Len(nds) : nds[j].id # d.id}}

VerticalCandidates(d, nds) ==
  LET dw == getNodeDimensions(d).width
  IN UNION {LET n == nds[i]
                nw == getNodeDimensions(n).width
            IN {[order |-> 3 * i + 1, dist |-> Abs((d.x + dw \div 2) - (n.x + nw \div 2)),
                 line |-> n.x + nw \div 2, snap |-> n.x + nw \div 2 - dw \div 2],
                [order |-> 3 * i + 2, dist |-> Abs(d.x - n.x), line |-> n.x, snap |-> n.x],
                [order |-> 3 * i + 3, dist |-> Abs((d.x + dw) - (n.x + nw)),
                 line |-> n.x + nw, snap |-> n.x + nw - dw]}
            : i \in {j \in 1..Len(nds) : nds[j].id # d.id}}

\* the candidates of smallest distance, and among them the one met first
Closest(cands) ==
  {c \in cands : \A o \in cands : c.dist < o.dist \/ (c.dist = o.dist /\ c.order <= o.order)}

\* what a call returned on an axis is the choice among the admitted candidates
ChoiceIs(admitted, line, snap) ==
  IF admitted = {} THEN line = {} /\ snap = {}
  ELSE \E c \in Closest(admitted) : line = {c.line} /\ snap = {c.snap}

\* C23 (as claimed): on each axis getHelperLines returns the closest candidate,
\* the first met among equally close ones, provided its distance is within
\* SNAP_THRESHOLD (at most 8), and no line and no snapped coordinate when every
\* candidate of the axis exceeds the threshold.
C23_ClosestWithinThreshold ==
  \A k \in 1..Len(calls) :
    LET c == calls[k]
    IN /\ ChoiceIs({h \in HorizontalCandidates(c.dragging, c.nds) : h.dist <= SNAP_THRESHOLD},
                   c.result.horizontal, c.result.snapY)
       /\ ChoiceIs({v \in VerticalCandidates(c.dragging, c.nds) : v.dist <= SNAP_THRESHOLD},
                   c.result.vertical, c.result.snapX)

\* C23 (amended): the same with the candidates admitted only at a distance
\* strictly below SNAP_THRESHOLD; an axis whose candidates are all at distance
\* 8 or more gets no line and no snapped coordinate.
C23_ClosestBelowThreshold ==
  \A k \in 1..Len(calls) :
    LET c == calls[k]
    IN /\ ChoiceIs({h \in HorizontalCandidates(c.dragging, c.nds) : h.dist < SNAP_THRESHOLD},
                   c.result.horizontal, c.result.snapY)
       /\ ChoiceIs({v \in VerticalCandidates(c.dragging, c.nds) : v.dist < SNAP_THRESHOLD},
                   c.result.vertical, c.result.snapX)

\* a call on three nodes that snaps on one axis only, the closest candidate of
\* that axis not being the first one walked, while the other axis has a
\* candidate exactly on the threshold
C23_Witness ==
  /\ Len(calls) = 1 /\ Len(calls[1].nds) = 3
  /\ calls[1].result.snapY # {} /\ calls[1].result.snapX = {}
  /\ \E v \in VerticalCandidates(calls[1].dragging, calls[1].nds) : v.dist = SNAP_THRESHOLD
  /\ \E h \in Closest(HorizontalCandidates(calls[1].dragging, calls[1].nds)) :
        h.order > 3 + 1 /\ calls[1].result.horizontal = {h.line}

\* C24: whenever the result of getHelperLines carries a horizontal or a vertical
\* snap, its alignType is one of center, top, bottom, left, right.
C24_SnapIsTagged ==
  \A k \in 1..Len(calls) :
    (calls[k].result.horizontal # {} \/ calls[k].result.vertical # {})
      => /\ calls[k].result.alignType # {}
         /\ calls[k].result.alignType \subseteq {"center", "top", "bottom", "left", "right"}

\* viewports (pan, zoom) of the flow pane at the moment of a double-click
Viewports == {[pan |-> <<0, 0>>, zoom |-> 1], [pan |-> <<40, 10>>, zoom |-> 2]}
\* canvas = (screen - viewport.pan) / viewport.zoom
ScreenToCanvas(screen, vp) ==
  <<(screen[1] - vp.pan[1]) \div vp.zoom, (screen[2] - vp.pan[2]) \div vp.zoom>>

\* C25: a double-click on the empty background adds exactly one node, its centre
\* at the click's canvas coordinate (screen - pan) / zoom whatever the pan and
\* zoom, and leaves the interaction state Idle; a double-click on an existing
\* node adds no node.
C25_DoubleClickAddsCentredNode ==
  [][/\ \A p \in DblClickPoints :
          (IsBoard /\ mode = "IDLE" /\ handleDoubleClickBoard(p, FALSE))
            => /\ mode' = "IDLE"
               /\ \E id \in DOMAIN layout' \ DOMAIN layout :
                     /\ DOMAIN layout' = DOMAIN layout \cup {id}
                     /\ layout'[id].x + NODE_WIDTH \div 2 = getCanvasCoordinates(p)[1]
                     /\ layout'[id].y + NODE_HEIGHT \div 2 = getCanvasCoordinates(p)[2]
               /\ \A k \in DOMAIN layout : layout'[k] = layout[k]
     /\ \A p \in DblClickPoints :
          (IsBoard /\ unmappedSessions # {} /\ handleDoubleClickBoard(p, TRUE))
            => layout' = layout
     /\ \A c \in ClickPositions, t \in 0..MaxClock, vp \in Viewports :
          (IsMap /\ onPaneDoubleClick(c[1], c[2], t))
            => /\ Len(nodes') = Len(nodes) + 1
               /\ LET n == nodes'[Len(nodes')]
                      dim == getNodeDimensions(n)
                  IN <<n.x + dim.width \div 2, n.y + dim.height \div 2>> = ScreenToCanvas(c, vp)]_vars

\* C26: after removeNodeFromBoard the layout value that was current before the
\* call (the prop object, its entries and their connections) still has the
\* contents it had before the call.
C26_RemoveLeavesOldLayout ==
  [][(IsBoard /\ ev'.op = "removeNode") => PropAfterRemove(layout, ev'.id) = layout]_vars

\* the events of the structural actions: node add, node delete, edge connect,
\* edge delete
StructuralOps == {"addNode", "paneDoubleClick", "deleteNode", "keyDelete", "connect", "deleteEdge"}
\* a structural action that went through: the document changed
CompletedStructural == IsMap /\ ev'.op \in StructuralOps /\ (nodes' # nodes \/ edges' # edges)

\* C27 (as claimed): each completed structural action makes the history one entry
\* longer, and a drag move does not modify the history.
C27_HistoryGrowsByOne ==
  [][/\ CompletedStructural => Len(history') = Len(history) + 1
     /\ (IsMap /\ ev'.op = "dragMove") => UNCHANGED <<history, historyIndex>>]_vars

\* C27 (amended): each completed structural action pushes exactly one snapshot of
\* the new document behind the entry the cursor points at, the entries above the
\* cursor being dropped and the result trimmed to the last 50, also when the action
\* is the first one after an undo or a redo; a drag move does not modify the
\* history.
C27_OneSnapshotPerAction ==
  [][/\ CompletedStructural
        => /\ history' = KeepLast(Append(SubSeq(history, 1, historyIndex + 1),
                                          Snapshot(nodes', edges')))
           /\ historyIndex' = Len(history') - 1
     /\ (IsMap /\ ev'.op = "dragMove") => UNCHANGED <<history, historyIndex>>]_vars

\* C27 witness: an edge was deleted as the first checkpoint after an undo: a node
\* had been added (the clock moved) and its checkpoint is gone, the history is the
\* first entry followed by the snapshot without the edge
C27_Witness ==
  /\ IsMap /\ ev.op = "deleteEdge" /\ now = MaxClock
  /\ Len(history) = 2 /\ historyIndex = 1 /\ ~isUndoRedo
  /\ Len(history[2].nodes) = 2 /\ history[2].edges = <<>>
  /\ nodes = history[2].nodes /\ edges = history[2].edges

\* C28: while panning, every pointer-move keeps pan minus anchor constant and
\* moves the anchor to the pointer, so the total change of pan since the
\* pointer-down is the last pointer position minus the pointer-down position
\* whatever the number of moves; the move changes no node entry (position,
\* connections).
C28_PanFollowsPointer ==
  [][\A p \in MousePoints :
       (IsBoard /\ mode = "PAN" /\ handleGlobalMove(p))
         => /\ pan'[1] - p[1] = pan[1] - startMouse[1]
            /\ pan'[2] - p[2] = pan[2] - startMouse[2]
            /\ startMouse' = p
            /\ layout' = layout]_vars

\* C28 witness: a pan gesture has moved the viewport over a board with a node
C28_Witness ==
  /\ IsBoard /\ mode = "PAN" /\ ev.op = "mouseMove"
  /\ pan # <<0, 0>> /\ layout # <<>>

\* C29: the backlog is exactly the completed (non-planned) sessions without a
\* layout entry: after every step each completed session is either rendered on the
\* board or in the backlog, never both, and no planned session is in the backlog;
\* adding a backlog session takes it out of the backlog and onto the board,
\* removing its node puts it back into the backlog.
C29_BacklogPartition ==
  [][IsBoard =>
       /\ \A s \in Sessions :
             s \in unmappedSessions' <=> (s.status # "planned" /\ s.id \notin DOMAIN layout')
       /\ \A s \in completedSessions : (s \in unmappedSessions') # (s.id \in RenderedNodes')
       /\ ev'.op \in {"addNode", "doubleClickBoard"} /\ layout' # layout
            => \E s \in unmappedSessions :
                  /\ s \notin unmappedSessions' /\ s.id \in RenderedNodes'
                  /\ unmappedSessions' = unmappedSessions \ {s}
       /\ ev'.op = "removeNode"
            => \E s \in completedSessions :
                  /\ s.id = ev'.id /\ s \notin unmappedSessions
                  /\ unmappedSessions' = unmappedSessions \cup {s}]_vars

\* C29 witness: a node has been removed from a board that holds another node; the
\* removed session is back in the backlog
C29_Witness ==
  /\ IsBoard /\ ev.op = "removeNode"
  /\ \E s \in unmappedSessions : s.id = ev.id
  /\ RenderedNodes # {}

\* C30: a checkpoint taken while the cursor is below the last entry (after one or
\* more undos) leaves the entries up to and including the cursor followed by the
\* new snapshot, with the cursor on the new snapshot; a redo requested right after
\* a structural action whose checkpoint is the last entry changes nothing.
C30_CheckpointDropsRedoEntries ==
  [][/\ (CompletedStructural /\ historyIndex < Len(history) - 1)
        => /\ history' = Append(SubSeq(history, 1, historyIndex + 1), Snapshot(nodes', edges'))
           /\ Len(history') = historyIndex + 2
           /\ historyIndex' = Len(history') - 1
     /\ (IsMap /\ ev.op \in StructuralOps /\ historyIndex = Len(history) - 1 /\ ev'.op = "redo")
        => UNCHANGED <<nodes, edges, history, historyIndex>>]_vars

\* C30 witness: a redo was requested on top of a checkpoint that replaced the
\* undone one: a node had been added (the clock moved) and no entry holds it, the
\* second entry holds a second edge instead, and the node selection, which a redo
\* that restores an entry clears, is still there
C30_Witness ==
  /\ IsMap /\ ev.op = "redo" /\ now = MaxClock
  /\ Len(history) = 2 /\ historyIndex = 1
  /\ Len(history[2].nodes) = 2 /\ Len(history[2].edges) = 2
  /\ selectedNode # {}
  /\ CurrentEntry = Snapshot(nodes, edges)

\* the document a redo restores with the cursor at hIdx: history[historyIndex + 1]
RedoTarget(h, hIdx) == h[hIdx + 2]

\* C31: an undo that is possible, immediately followed by a redo, restores the
\* nodes and edges to what they were before the undo and the cursor to its
\* previous value (the redo is applied to the state the undo step leaves).
C31_UndoRedoIdentity ==
  [][(IsMap /\ mounted /\ ev'.op = "undo" /\ historyIndex > 0)
       => /\ historyIndex' < Len(history') - 1
          /\ RedoTarget(history', historyIndex').nodes = nodes
          /\ RedoTarget(history', historyIndex').edges = edges
          /\ historyIndex' + 1 = historyIndex]_vars

\* C32: in every reachable state of LifeSystemMap a selected node is a node of
\* the current document (by id) and a selected edge is an edge of the current
\* document (by id).
C32_SelectionInDocument ==
  IsMap =>
    /\ selectedNode # {} => \E i \in 1..Len(nodes) : nodes[i].id = The(selectedNode).id
    /\ selectedEdge # {} => \E i \in 1..Len(edges) : edges[i].id = The(selectedEdge).id

\* C33: in every reachable state of LifeSystemMap at most one of selectedNode and
\* selectedEdge is set.
C33_OneSelection ==
  IsMap => (selectedNode = {} \/ selectedEdge = {})

IsApp == editor = "app"
\* the history before the step is still there, followed by one more session
OneAppended(before, after) ==
  /\ Len(after) = Len(before) + 1
  /\ SubSeq(after, 1, Len(before)) = before

\* C34: in the focus workflow a recorded completion raises chainCount by exactly
\* one and appends exactly one completed session of at least one minute, a
\* confirmed cancel sets chainCount to 0 and leaves the history alone, a declined
\* cancel and a discarded sub-minute session change neither, and no other step of
\* the workflow changes chainCount.
C34_ChainCount ==
  [][IsApp =>
       /\ ev' = Ev("finishFocus", "recorded")
            => /\ state'.data.chainCount = state.data.chainCount + 1
               /\ OneAppended(state.data.history, state'.data.history)
               /\ state'.data.history[Len(state'.data.history)].status = "completed"
               /\ state'.data.history[Len(state'.data.history)].durationMinutes >= 1
       /\ ev' = Ev("cancel", "confirmed")
            => /\ state'.data.chainCount = 0
               /\ state'.data.history = state.data.history
       /\ ev' \in {Ev("cancel", "declined"), Ev("finishFocus", "discarded")}
            => /\ state'.data.chainCount = state.data.chainCount
               /\ state'.data.history = state.data.history
       /\ (ev'.op \in {"startAux", "startFocus", "cancel", "finishFocus", "tick"}
             /\ state'.data.chainCount # state.data.chainCount)
            => ev' \in {Ev("finishFocus", "recorded"), Ev("cancel", "confirmed")}]_vars

\* C34 witness: a session shorter than a minute was recorded after a confirmed
\* cancel: the chain restarted from 0 counts 1 and the session counts one minute
C34_Witness ==
  /\ IsApp /\ ev = Ev("finishFocus", "recorded")
  /\ state.data.chainCount = 1
  /\ state.data.history[Len(state.data.history)].durationMinutes = 1

\* C35: nothing is written to localStorage before the load effect has run, and
\* when the item found at start parses, the first value written is the state the
\* load effect made of it (the item itself when it lacks no key).
C35_LoadBeforeSave ==
  [][IsApp =>
       /\ writes' # writes => appPc # "mounted"
       /\ storage' # storage => writes' # writes
       /\ (writes = <<>> /\ writes' # <<>> /\ storage # {} /\ The(storage).valid)
            => /\ writes'[1] = Normalize(The(storage))
               /\ The(storage).missing = {} => writes'[1] = The(storage).value
               /\ storage' = {Stringify(Normalize(The(storage)))}]_vars

\* C35 witness: the first write has happened, of a saved state that is not the
\* built-in initial state
C35_Witness ==
  /\ IsApp /\ appPc = "ready" /\ ev.op = "render"
  /\ writes = <<state>> /\ state # INITIAL_STATE
  /\ storage = {Stringify(state)}

====
